---- MODULE Spec2Model ----
(***************************************************************************)
(* Model of the Atrack telematics ingestion server: the per-connection     *)
(* state machine (ClientSocket), the picture reassembler (Picture) and the *)
(* helpers they use.  Buffers and strings are sequences of byte / character*)
(* codes; JavaScript values that may be undefined or NaN are records        *)
(* [k, v] so that they can be compared with one another.                    *)
(***************************************************************************)
EXTENDS Integers, Sequences, FiniteSets, TLC

\* ------------------------------------------------------------------------
\* Bounds of the model
\* ------------------------------------------------------------------------
MaxPackets == 4

\* sink writes pending at once
MaxPending == 2

MaxWidth == 4

MaxFields == 3

MaxRaw == 260

MaxBelow == 130

MaxDecimals == 3

MaxTires == 2

\* the clock stops after two liveness periods, each check run late, and
\* some time more
MaxTime == 120300

\* how late after its due instant a timer callback runs at most, in ms
MaxDrift == 100

\* how long before its due instant a timer callback runs at most, in ms:
\* the timers run on the clock of the event loop, which Date.now() does not
\* follow to the millisecond
MaxEarly == 1

\* connections the server reports to the console
MaxConnections == 2

\* ------------------------------------------------------------------------
\* JavaScript values
\* ------------------------------------------------------------------------
Undefined == [k |-> "undefined", v |-> 0]

NaN == [k |-> "NaN", v |-> 0]

Num(n) == [k |-> "number", v |-> n]

BigInt(n) == [k |-> "bigint", v |-> n]

\* JavaScript truthiness of undefined / NaN / number / bigint
Truthy(x) == x.k \in {"number", "bigint"} /\ (x.v # 0 \/ "frac" \in DOMAIN x)

\* !x
Not(x) == [k |-> "boolean", v |-> IF Truthy(x) THEN 0 ELSE 1]

Min(a, b) == IF a < b THEN a ELSE b

Max(a, b) == IF a > b THEN a ELSE b

\* b ** e
RECURSIVE Pow(_, _)
Pow(b, e) == IF e = 0 THEN 1 ELSE b * Pow(b, e - 1)

\* ------------------------------------------------------------------------
\* Numbers of the runtime (IEEE 754 binary64)
\* An integer is Num(n). Any other number is written as the runtime prints
\* it, the shortest decimal that names the double: v is its integer part
\* (towards zero, signed), neg its sign and frac the digits after the point,
\* so 3.2624999999999997 is [v |-> 3, neg |-> FALSE, frac |-> <<2, 6, ..., 7>>].
\* Arithmetic goes through the double itself, m / 2^s with 2^52 <= m < 2^53,
\* where m and every intermediate natural number is a sequence of limbs in
\* base 10000, most significant first, zero being <<>>.
\* ------------------------------------------------------------------------
\* a sequence without its leading zeros
Strip(d) ==
    IF \A i \in DOMAIN d : d[i] = 0 THEN <<>>
    ELSE SubSeq(d, CHOOSE i \in DOMAIN d :
                       d[i] # 0 /\ \A j \in 1..(i - 1) : d[j] = 0, Len(d))

\* a sequence without its trailing zeros
StripRight(d) ==
    IF \A i \in DOMAIN d : d[i] = 0 THEN <<>>
    ELSE SubSeq(d, 1, CHOOSE i \in DOMAIN d :
                          d[i] # 0 /\ \A j \in (i + 1)..Len(d) : d[j] = 0)

\* a function over 1..n as the tuple of its values
Tuple(f) == f \o <<>>

\* x once it has a value: an operand is worked out before the operation on
\* it starts
Ready(x) == x = x

Zeros(n) == Tuple([i \in 1..(IF n > 0 THEN n ELSE 0) |-> 0])

PadLeft(d, n) == Zeros(n - Len(d)) \o d

\* limbs of a sequence of decimal digits, and back
Grouped(p) ==
    Tuple([i \in 1..(Len(p) \div 4) |->
              p[4 * i - 3] * 1000 + p[4 * i - 2] * 100 + p[4 * i - 1] * 10 + p[4 * i]])

ToLimbs(digits) == Strip(Grouped(PadLeft(digits, 4 * ((Len(digits) + 3) \div 4))))

ToDigits(d) ==
    Strip(Tuple([i \in 1..(4 * Len(d)) |->
                    (d[(i + 3) \div 4] \div <<1000, 100, 10, 1>>[((i - 1) % 4) + 1]) % 10]))

\* the limbs of a natural number below 2^31, and back
NatLimbs(n) == Strip(<<n \div 100000000, (n \div 10000) % 10000, n % 10000>>)

LimbsValue(p) == p[1] * 100000000 + p[2] * 10000 + p[3]

\* the decimal digits of a natural number below 2^31; zero is <<>>
NatDigits(n) == ToDigits(NatLimbs(n))

\* the natural number of a sequence of at most ten decimal digits
NatValue(d) == LimbsValue(PadLeft(ToLimbs(d), 3))

\* Columns t of natural numbers below 2^31 stand for the number
\* t[1] * 10000^(n-1) + ... + t[n]. One spill moves the excess of every
\* column into the next one, with one more column in front.
Spill(t) ==
    Tuple([i \in 1..(Len(t) + 1) |->
              (IF i = 1 THEN 0 ELSE t[i - 1] % 10000)
              + (IF i = Len(t) + 1 THEN 0 ELSE t[i] \div 10000)])

\* columns up to 10000: a column gets a carry when a column after it is at
\* 10000 and every column in between is at 9999
Settled(w) ==
    Tuple([i \in 1..Len(w) |->
              (w[i] + (IF \E j \in (i + 1)..Len(w) :
                              w[j] >= 10000 /\ \A k \in (i + 1)..(j - 1) : w[k] = 9999
                       THEN 1 ELSE 0)) % 10000])

\* the limbs of the number of the columns t: after three spills no column
\* is above 10000
Carried(t) == Strip(Settled(Spill(Spill(Spill(t)))))

\* a + b of two sequences of the same length
AddSame(a, b) == Carried(Tuple([i \in 1..Len(a) |-> a[i] + b[i]]))

AddD(a, b) ==
    AddSame(PadLeft(a, Max(Len(a), Len(b))), PadLeft(b, Max(Len(a), Len(b))))

\* the limbs of the columns t of a difference, each between -9999 and 9999:
\* a column lends when a column after it is below 0 and every column in
\* between is at 0
Borrowed(t) ==
    Tuple([i \in 1..Len(t) |->
              (t[i] + 10000 - (IF \E j \in (i + 1)..Len(t) :
                                     t[j] < 0 /\ \A k \in (i + 1)..(j - 1) : t[k] = 0
                               THEN 1 ELSE 0)) % 10000])

\* a - b of two sequences of the same length, a >= b
SubSame(a, b) == Strip(Borrowed(Tuple([i \in 1..Len(a) |-> a[i] - b[i]])))

SubD(a, b) ==
    SubSame(PadLeft(a, Max(Len(a), Len(b))), PadLeft(b, Max(Len(a), Len(b))))

\* a < b for sequences of the same length
LessSame(a, b) ==
    \E i \in DOMAIN a : a[i] < b[i] /\ \A j \in 1..(i - 1) : a[j] = b[j]

LessD(a, b) ==
    LessSame(PadLeft(a, Max(Len(a), Len(b))), PadLeft(b, Max(Len(a), Len(b))))

\* the part of column k of a * b that limb i of a gives
Term(a, b, i, k) ==
    IF i <= Len(a) /\ k + 1 - i >= 1 /\ k + 1 - i <= Len(b)
    THEN a[i] * b[k + 1 - i] ELSE 0

Sum4(t) == t[1] + t[2] + t[3] + t[4]

\* a * b for a of at most four limbs, as a significand is
MulD(a, b) ==
    Carried(Tuple([k \in 1..(Len(a) + Len(b) - 1) |->
                      Sum4(Tuple([i \in 1..4 |-> Term(a, b, i, k)]))]))

\* d * b^k for b in {2, 5, 10}, by 2^30, 5^13 or 10^9 while k allows, then
\* by b^4, then by b
Big(b) == IF b = 2 THEN 30 ELSE IF b = 5 THEN 13 ELSE 9

Step(b, k) == IF k >= Big(b) THEN Big(b) ELSE IF k >= 4 THEN 4 ELSE 1

Factor(b, k) ==
    IF k >= Big(b)
    THEN (IF b = 2 THEN 1073741824 ELSE IF b = 5 THEN 1220703125 ELSE 1000000000)
    ELSE IF k >= 4 THEN b * b * b * b
    ELSE b

RECURSIVE TimesPow(_, _, _)
TimesPow(d, b, k) ==
    IF k = 0 \/ d = <<>> THEN d
    ELSE TimesPow(MulD(NatLimbs(Factor(b, k)), d), b, k - Step(b, k))

\* d * b^k * 10^t
TimesPowTen(d, b, k, t) == TimesPow(TimesPow(d, b, k), 10, t)

\* 2^52 and 2^53
two52 == <<4503, 5996, 2737, 496>>

two53 == <<9007, 1992, 5474, 992>>

\* 2^22, 2^40, 2^48, 2^52, 2^53, 2^57, 2^65, and the doublings (halvings
\* when negative) that suit a number by how many of them it reaches
Marks ==
    <<<<419, 4304>>, <<1, 995, 1162, 7776>>, <<281, 4749, 7671, 656>>, two52, two53,
      <<14, 4115, 1880, 7585, 5872>>, <<3689, 3488, 1474, 1910, 3232>>>>

Shift(ip) ==
    <<30, 12, 4, 1, 0, 0 - 1, 0 - 4, 0 - 12>>
        [Cardinality({i \in DOMAIN Marks : ~LessD(ip, Marks[i])}) + 1]

\* the natural number d over 10000^f: its integer part and its fraction
IntPart(d, f) == SubSeq(d, 1, Len(d) - f)

FracPart(d, f) == SubSeq(PadLeft(d, f), Max(Len(d), f) - f + 1, Max(Len(d), f))

\* n[1] / 10000^n[2] / 2^n[3] after k doublings, and after j halvings when
\* k = -j: halving j times is * 5^j / 10^j, filled to whole limbs
Scaled(n, k) ==
    IF k > 0 THEN <<TimesPow(n[1], 2, k), n[2], n[3] + k>>
    ELSE <<TimesPowTen(n[1], 5, 0 - k, 4 * ((3 - k) \div 4) + k), n[2] + (3 - k) \div 4, n[3] + k>>

\* the positive value n[1] / 10000^n[2] / 2^n[3] rewritten with its first
\* factor in [2^52, 2^53)
RECURSIVE Normal(_)
NormalBy(n, k) == IF k = 0 THEN n ELSE Normal(Scaled(n, k))

Normal(n) == NormalBy(n, Shift(IntPart(n[1], n[2])))

\* -1, 0, 1 as a fraction is below, at or above one half
HalfCmp(frac) ==
    IF frac = <<>> \/ frac[1] < 5000 THEN 0 - 1
    ELSE IF frac[1] > 5000 \/ Strip(Tail(frac)) # <<>> THEN 1
    ELSE 0

\* the double m / 2^s, for m up to 2^53
Binary64(m, s) == IF m = two53 THEN [m |-> two52, s |-> s - 1] ELSE [m |-> m, s |-> s]

\* round to nearest, ties to the even significand
Rounded(ip, cmp, s) ==
    Binary64(IF cmp > 0 \/ (cmp = 0 /\ ip[Len(ip)] % 2 = 1) THEN AddD(ip, <<1>>) ELSE ip, s)

RoundNormal(n) ==
    IF Ready(n) THEN Rounded(IntPart(n[1], n[2]), HalfCmp(FracPart(n[1], n[2])), n[3])
    ELSE n

\* the double nearest to the positive value (d / 10000^f) / 2^s
RoundToDouble(d, f, s) == RoundNormal(Normal(<<d, f, s>>))

\* m / 2^s * 10^g as a natural number, for g >= s
Exact(m, s, g) ==
    IF s >= 0 THEN TimesPowTen(m, 5, s, g - s) ELSE TimesPowTen(m, 2, 0 - s, g)

\* c is in the interval from lo to hi, the ends counting when closed
Within(c, lo, hi, closed) ==
    (LessD(lo, c) /\ LessD(c, hi)) \/ (closed /\ c \in {lo, hi})

\* the decimal digits D cut to the first n, and one unit of digit n
Cut(D, n) == ToLimbs(Tuple([i \in 1..Len(D) |-> IF i <= n THEN D[i] ELSE 0]))

Unit(D, n) == ToLimbs(<<1>> \o Zeros(Len(D) - n))

\* the n-digit decimals below and above the number of digits D
Above(c, u) == <<c, AddD(c, u)>>

Around(D, n) == Above(Cut(D, n), Unit(D, n))

\* of the decimals c[1] below and c[2] above, in[i] telling whether c[i] is
\* in the interval: the nearer one that is in, else <<>>
Chosen(c, in, belowNearer) ==
    IF in[1] /\ (~in[2] \/ belowNearer) THEN c[1]
    ELSE IF in[2] THEN c[2]
    ELSE <<>>

\* the distances above - v and v - below
Gaps(v, c) == Tuple([i \in 1..2 |-> SubD(<<c[2], v>>[i], <<v, c[1]>>[i])])

Pick(v, lo, hi, closed, c) ==
    Chosen(c, Tuple([i \in 1..2 |-> Within(c[i], lo, hi, closed)]),
           ~LessD(Gaps(v, c)[1], Gaps(v, c)[2]))

\* the first entry of P that is not <<>>, and v when there is none
FirstOf(P, v) ==
    IF \A n \in DOMAIN P : P[n] = <<>> THEN v
    ELSE P[CHOOSE n \in DOMAIN P : P[n] # <<>> /\ \A j \in 1..(n - 1) : P[j] = <<>>]

\* the shortest decimal that reads back as the double of value v, whose
\* decimal digits are D, as the runtime prints it: for n = 1, 2, ...
\* significant digits the two n-digit decimals around v are tried against
\* the interval from lo to hi that rounds to v (17 digits tell any two
\* doubles apart)
ShortestFrom(v, D, lo, hi, closed) ==
    IF Ready(<<D, lo, hi>>)
    THEN FirstOf(Tuple([n \in 1..Min(17, Len(D) - 1) |->
                           Pick(v, lo, hi, closed, Around(D, n))]), v)
    ELSE v

\* x[1] is the value, x[2] half the gap to the double above, x[3] half the
\* gap to the double below
ShortestIn(x, closed) ==
    ShortestFrom(x[1], ToDigits(x[1]), SubD(x[1], x[3]), AddD(x[1], x[2]), closed)

\* the doubles around r = m / 2^s are 2^(-s) away, and the one below only
\* 2^(-s-1) when m is 2^52; all times 10^g
Shortest(r, g) ==
    ShortestIn(Tuple([i \in 1..3 |->
                         Exact(<<r.m, <<1>>, <<1>>>>[i],
                               <<r.s, r.s + 1,
                                 IF r.m = two52 THEN r.s + 2 ELSE r.s + 1>>[i], g)]),
               r.m[Len(r.m)] % 2 = 0)

\* the number of sign neg, integer part ip and fraction digits frac
Signed(neg, ip, frac) ==
    IF frac = <<>> THEN [k |-> "number", v |-> IF neg THEN 0 - ip ELSE ip]
    ELSE [k |-> "number", v |-> IF neg THEN 0 - ip ELSE ip,
          neg |-> neg, frac |-> frac]

\* the number of sign neg and magnitude digits / 10^e
Number(neg, digits, e) ==
    IF Ready(digits)
    THEN Signed(neg, NatValue(SubSeq(digits, 1, Len(digits) - e)),
                StripRight(SubSeq(PadLeft(digits, e), Max(Len(digits), e) - e + 1,
                                  Max(Len(digits), e))))
    ELSE NaN

\* number of decimal places of a number: an integer has none
Scale(x) == IF "frac" \in DOMAIN x THEN Len(x.frac) ELSE 0

\* the number that the decimal m / 10^e denotes
Dec(m, e) == Number(m < 0, NatDigits(IF m < 0 THEN 0 - m ELSE m), e)

IsNegative(x) == IF "neg" \in DOMAIN x THEN x.neg ELSE x.v < 0

IsZero(x) == x.v = 0 /\ "frac" \notin DOMAIN x

\* magnitude of a number as decimal digits over 10^Scale(x), as printed
Magnitude(x) ==
    NatDigits(IF x.v < 0 THEN 0 - x.v ELSE x.v)
    \o (IF "frac" \in DOMAIN x THEN x.frac ELSE <<>>)

\* the double a number names: its decimal places are filled to whole limbs
Double(x) ==
    RoundToDouble(ToLimbs(Magnitude(x) \o Zeros(4 * ((Scale(x) + 3) \div 4) - Scale(x))),
                  (Scale(x) + 3) \div 4, 0)

Doubles(a, b) == Tuple([i \in 1..2 |-> Double(<<a, b>>[i])])

\* the number a positive double is printed as
Printed(neg, r) ==
    IF Ready(r) THEN Number(neg, ToDigits(Shortest(r, Max(r.s, 0) + 2)), Max(r.s, 0) + 2)
    ELSE NaN

\* the product of two positive doubles
MulDoubles(neg, p) ==
    IF Ready(p)
    THEN Printed(neg, RoundToDouble(MulD(p[1].m, p[2].m), 0, p[1].s + p[2].s))
    ELSE NaN

\* the significands of two doubles brought to the larger s of the two
Aligned(p) ==
    Tuple([i \in 1..2 |-> TimesPow(p[i].m, 2, Max(p[1].s, p[2].s) - p[i].s)])

\* the sign and the size of the sum of x[1] and x[2] of signs na and nb
SumSign(na, nb, x) == IF na = nb \/ ~LessD(x[1], x[2]) THEN na ELSE nb

SumSize(na, nb, x) ==
    IF na = nb THEN AddD(x[1], x[2])
    ELSE SubD(IF LessD(x[1], x[2]) THEN x[2] ELSE x[1],
              IF LessD(x[1], x[2]) THEN x[1] ELSE x[2])

\* the sum of x[1] / 2^s and x[2] / 2^s of signs na and nb
AddAligned(na, nb, x, s) ==
    IF na # nb /\ x[1] = x[2] THEN Num(0)
    ELSE Printed(SumSign(na, nb, x), RoundToDouble(SumSize(na, nb, x), 0, s))

AddDoubles(na, nb, p) ==
    IF Ready(p) THEN AddAligned(na, nb, Aligned(p), Max(p[1].s, p[2].s)) ELSE NaN

\* a * b of two values: NaN unless both are numbers
Mul(a, b) ==
    IF a.k = "number" /\ b.k = "number"
    THEN IF IsZero(a) \/ IsZero(b) THEN Num(0)
         ELSE MulDoubles(IsNegative(a) # IsNegative(b), Doubles(a, b))
    ELSE NaN

\* a + b of two values: NaN unless both are numbers
Add(a, b) ==
    IF a.k = "number" /\ b.k = "number"
    THEN IF IsZero(a) THEN b
         ELSE IF IsZero(b) THEN a
         ELSE AddDoubles(IsNegative(a), IsNegative(b), Doubles(a, b))
    ELSE NaN

\* An absent (undefined) string or list, or a present one
None == [def |-> FALSE, v |-> <<>>]

Some(x) == [def |-> TRUE, v |-> x]

\* an exception thrown instead of a value
Throw == [k |-> "throw", v |-> 0]

\* ------------------------------------------------------------------------
\* Character codes
\* ------------------------------------------------------------------------
chComma == 44

chEq == 61

chPercent == 37

chDQuote == 34

chSQuote == 39

chSpace == 32

chZero == 48

chMinus == 45

chPlus == 43

chDot == 46

chTilde == 126

chCRLF == <<13, 10>>

strUndefined == <<117, 110, 100, 101, 102, 105, 110, 101, 100>>

strNaN == <<78, 97, 78>>

IsDigit(c) == c >= 48 /\ c <= 57

\* value of a hexadecimal digit character, -1 when it is not one
HexVal(c) ==
    IF c >= 48 /\ c <= 57 THEN c - 48
    ELSE IF c >= 97 /\ c <= 102 THEN c - 87
    ELSE IF c >= 65 /\ c <= 70 THEN c - 55
    ELSE -1

HexChar(d) == IF d < 10 THEN 48 + d ELSE 87 + d

\* the code units of WhiteSpace and LineTerminator, which parseInt skips in
\* front and String.prototype.trim removes at both ends
IsWhite(c) ==
    c \in {9, 10, 11, 12, 13, 32, 160, 5760, 8192, 8193, 8194, 8195, 8196, 8197,
           8198, 8199, 8200, 8201, 8202, 8232, 8233, 8239, 8287, 12288, 65279}

\* ------------------------------------------------------------------------
\* Buffer and String primitives of the runtime
\* ------------------------------------------------------------------------
\* index normalisation of Buffer.subarray / String.slice
NormIndex(i, len) == IF i < 0 THEN Max(len + i, 0) ELSE Min(i, len)

\* buf.subarray(a, b) (0-based, end exclusive, negative indices from the end)
subarray(buf, a, b) ==
    LET s == NormIndex(a, Len(buf))
        e == NormIndex(b, Len(buf))
    IN  IF s >= e THEN <<>> ELSE SubSeq(buf, s + 1, e)

\* buf.subarray(a)
subarrayFrom(buf, a) == subarray(buf, a, Len(buf))

\* buf.indexOf(ch, start): 0-based index of the first ch at or after start, else -1
indexOf(buf, ch, start) ==
    LET from == IF start < 0 THEN Max(Len(buf) + start, 0) ELSE start
        hits == {i \in 0..(Len(buf) - 1) : i >= from /\ buf[i + 1] = ch}
    IN  IF hits = {} THEN -1 ELSE CHOOSE i \in hits : \A j \in hits : i <= j

\* Buffer.from(s, 'ascii'): the low byte of every code unit
BufferFromAscii(s) == Tuple([i \in 1..Len(s) |-> s[i] % 256])

\* buf.toString('ascii'): the high bit of every byte is dropped
toAscii(buf) == [i \in 1..Len(buf) |-> buf[i] % 128]

\* big-endian unsigned integer of a byte sequence
RECURSIVE ReadUIntBE(_)
ReadUIntBE(bytes) ==
    IF bytes = <<>> THEN 0
    ELSE ReadUIntBE(SubSeq(bytes, 1, Len(bytes) - 1)) * 256 + bytes[Len(bytes)]

\* parseInt(buf.toString('hex'), 16): NaN for an empty slice
parseIntHexOfBytes(bytes) == IF bytes = <<>> THEN NaN ELSE Num(ReadUIntBE(bytes))

\* 0-based index of the first occurrence of sep in s at or after from, else -1
FindSeq(s, sep, from) ==
    LET hits == {i \in from..(Len(s) - Len(sep)) :
                    SubSeq(s, i + 1, i + Len(sep)) = sep}
    IN  IF hits = {} THEN -1 ELSE CHOOSE i \in hits : \A j \in hits : i <= j

\* s.split(sep) for a non-empty separator
RECURSIVE split(_, _)
split(s, sep) ==
    LET i == FindSeq(s, sep, 0)
    IN  IF i = -1 THEN <<s>>
        ELSE <<SubSeq(s, 1, i)>> \o split(SubSeq(s, i + Len(sep) + 1, Len(s)), sep)

\* s.padStart(n, c)
padStart(s, n, c) ==
    IF Len(s) >= n THEN s ELSE [i \in 1..(n - Len(s)) |-> c] \o s

\* digits of a non-negative integer in the given radix (lower case)
RECURSIVE DigitsOf(_, _)
DigitsOf(n, radix) ==
    IF n < radix THEN <<HexChar(n)>>
    ELSE Append(DigitsOf(n \div radix, radix), HexChar(n % radix))

\* x.toString(radix) of a number or bigint (NaN prints as "NaN")
toStringRadix(x, radix) ==
    IF x.k = "NaN" THEN strNaN
    ELSE IF x.k = "undefined" THEN strUndefined
    ELSE IF x.v < 0 THEN <<chMinus>> \o DigitsOf(0 - x.v, radix)
    ELSE DigitsOf(x.v, radix)

\* value of the longest prefix of s made of digits of the radix; <<>> -> -1
RECURSIVE DigitsValue(_, _, _)
DigitsValue(s, radix, acc) ==
    IF s = <<>> \/ HexVal(s[1]) < 0 \/ HexVal(s[1]) >= radix THEN acc
    ELSE DigitsValue(Tail(s), radix, acc * radix + HexVal(s[1]))

HasDigit(s, radix) == s # <<>> /\ HexVal(s[1]) >= 0 /\ HexVal(s[1]) < radix

RECURSIVE TrimLeft(_)
TrimLeft(s) == IF s # <<>> /\ IsWhite(s[1]) THEN TrimLeft(Tail(s)) ELSE s

\* parseInt(s) with the default radix: leading white space, a sign, an
\* optional 0x prefix, then the longest run of digits; NaN without digits
parseInt(s) ==
    LET t    == TrimLeft(s)
        neg  == t # <<>> /\ t[1] = chMinus
        u    == IF t # <<>> /\ t[1] \in {chMinus, chPlus} THEN Tail(t) ELSE t
        hex  == Len(u) >= 2 /\ u[1] = chZero /\ u[2] \in {120, 88}
        body == IF hex THEN SubSeq(u, 3, Len(u)) ELSE u
        rad  == IF hex THEN 16 ELSE 10
        mag  == DigitsValue(body, rad, 0)
    IN  IF ~HasDigit(body, rad) THEN NaN
        ELSE Num(IF neg THEN 0 - mag ELSE mag)

\* parseInt(s, radix) once white space and sign are taken off: u is the rest
parseIntDigits(u, neg, radix) ==
    IF ~HasDigit(u, radix) THEN NaN
    ELSE Num(IF neg THEN 0 - DigitsValue(u, radix, 0) ELSE DigitsValue(u, radix, 0))

\* parseInt(s, radix) after the leading white space: a sign, then (radix 16
\* only) an optional 0x prefix
parseIntTrimmed(t, radix) ==
    IF t # <<>> /\ t[1] \in {chMinus, chPlus}
    THEN IF radix = 16 /\ Len(t) >= 3 /\ t[2] = chZero /\ t[3] \in {120, 88}
         THEN parseIntDigits(SubSeq(t, 4, Len(t)), t[1] = chMinus, radix)
         ELSE parseIntDigits(Tail(t), t[1] = chMinus, radix)
    ELSE IF radix = 16 /\ Len(t) >= 2 /\ t[1] = chZero /\ t[2] \in {120, 88}
         THEN parseIntDigits(SubSeq(t, 3, Len(t)), FALSE, radix)
         ELSE parseIntDigits(t, FALSE, radix)

\* parseInt(s, radix) with an explicit radix
parseIntRadix(s, radix) == parseIntTrimmed(TrimLeft(s), radix)

\* the longest prefix of s made of decimal digits
RECURSIVE DigitRun(_)
DigitRun(s) ==
    IF s = <<>> \/ ~IsDigit(s[1]) THEN <<>> ELSE <<s[1]>> \o DigitRun(Tail(s))

\* parseFloat(s): leading white space, a sign, then the longest prefix that
\* reads digits, or digits "." digits with either side possibly empty; NaN
\* when neither side has a digit (no text of this model holds an exponent or
\* "Infinity")
parseFloat(s) ==
    LET t    == TrimLeft(s)
        neg  == t # <<>> /\ t[1] = chMinus
        u    == IF t # <<>> /\ t[1] \in {chMinus, chPlus} THEN Tail(t) ELSE t
        ip   == DigitRun(u)
        rest == SubSeq(u, Len(ip) + 1, Len(u))
        fp   == IF rest # <<>> /\ rest[1] = chDot THEN DigitRun(Tail(rest)) ELSE <<>>
        mag  == DigitsValue(ip \o fp, 10, 0)
    IN  IF ip = <<>> /\ fp = <<>> THEN NaN
        ELSE Dec(IF neg THEN 0 - mag ELSE mag, Len(fp))

\* Buffer.from(s, 'hex'): whole pairs of hex digits, up to the first bad pair
RECURSIVE BufferFromHex(_)
BufferFromHex(s) ==
    IF Len(s) < 2 \/ HexVal(s[1]) < 0 \/ HexVal(s[2]) < 0 THEN <<>>
    ELSE <<HexVal(s[1]) * 16 + HexVal(s[2])>> \o BufferFromHex(SubSeq(s, 3, Len(s)))

\* ------------------------------------------------------------------------
\* utilities.js
\* ------------------------------------------------------------------------
\* Utilities.GetHeaderValueAscii: <<value, next index>>; the field runs from
\* startIndex to the next comma (indexOf gives -1 when there is none, and the
\* slice and the next index are computed from that -1)
GetHeaderValueAscii(inputBuffer, startIndex, type) ==
    LET endIndex == indexOf(inputBuffer, chComma, startIndex)
        output   == toAscii(subarray(inputBuffer, startIndex, endIndex))
    IN  <<IF type = "Int" THEN parseInt(output) ELSE output, endIndex + 1>>

\* Utilities.ParseFloatDecimal: the decimal point is put decimalPoint
\* characters from the right of the text of the number
ParseFloatDecimal(strNum, decimalPoint) ==
    LET str         == IF strNum.k = "string" THEN strNum.v ELSE toStringRadix(strNum, 10)
        insertIndex == Len(str) - decimalPoint
    IN  IF insertIndex < 0
        THEN parseFloat(<<chZero, chDot>> \o padStart(str, decimalPoint, chZero))
        ELSE parseFloat(subarray(str, 0, insertIndex) \o <<chDot>>
                        \o subarrayFrom(str, insertIndex))

\* Utilities.IsStringEmptyOrSpaces: str.match(/^ *$/) !== null
IsStringEmptyOrSpaces(str) == \A i \in 1..Len(str) : str[i] = chSpace

\* Utilities.ParseBinaryToUnsigned
ParseBinaryToUnsigned(binaryString) == parseIntRadix(binaryString, 2)

\* Utilities.ParseBinaryToSinged: two's complement of a string of at least two
\* binary digits; anything else throws
ParseBinaryToSinged(binaryString) ==
    IF \/ Len(binaryString) <= 1
       \/ \E i \in 1..Len(binaryString) : binaryString[i] \notin {48, 49}
    THEN Throw
    ELSE IF binaryString[1] = 49
         THEN Num(0 - (Pow(2, Len(binaryString)) - parseIntRadix(binaryString, 2).v))
         ELSE Num(parseIntRadix(binaryString, 2).v)

\* ParseHexStringToBinary without the zero padding
ParseHexStringToBinary_Unpadded(hexString, size) ==
    toStringRadix(parseIntRadix(hexString, 16), 2)

\* Utilities.ParseHexStringToBinary: the text of NaN and of a negative number
\* is padded like any other
ParseHexStringToBinary(hexString, size) ==
    padStart(toStringRadix(parseIntRadix(hexString, 16), 2), size, chZero)

\* ParseHexStringToSignedInt reading the group as a 16-bit quantity
ParseHexStringToSignedInt_Width16(hexString, size) ==
    ParseBinaryToSinged(ParseHexStringToBinary(hexString, 16))

\* Utilities.ParseHexStringToSignedInt: the binary text is never undefined
ParseHexStringToSignedInt(hexString, size) ==
    ParseBinaryToSinged(ParseHexStringToBinary(hexString, size))

\* SliceRange leaving out the top bit of the span
SliceRange_WithoutTopBit(binaryString, binaryLength, start, end) ==
    IF /\ start.k = "number" /\ end.k = "number"
       /\ start.v < end.v /\ start.v >= 0 /\ end.v < binaryLength
    THEN Some(subarray(binaryString, binaryLength - end.v, binaryLength - start.v))
    ELSE None

\* GetIntSliceFromBinary, range "start~end": the characters of the bit span
SliceRange(binaryString, binaryLength, start, end) ==
    IF /\ start.k = "number" /\ end.k = "number"
       /\ start.v < end.v /\ start.v >= 0 /\ end.v < binaryLength
    THEN Some(subarray(binaryString, binaryLength - end.v - 1, binaryLength - start.v))
    ELSE None

\* GetIntSliceFromBinary, single index: binaryString[binaryLength - bit - 1],
\* undefined when that position is outside the string
SliceBit(binaryString, binaryLength, bit) ==
    IF bit.k = "number" /\ bit.v < binaryLength
       /\ binaryLength - bit.v - 1 >= 0 /\ binaryLength - bit.v - 1 < Len(binaryString)
    THEN Some(<<binaryString[binaryLength - bit.v]>>)
    ELSE None

\* GetIntSliceFromBinary: the conversion of the sliced characters
SliceParse(output, signed) ==
    IF ~output.def THEN Undefined
    ELSE IF signed THEN ParseBinaryToSinged(output.v)
    ELSE ParseBinaryToUnsigned(output.v)

\* GetIntSliceFromBinary once inputNum has been written in binary and padded
SliceOfBinary(binaryString, binaryLength, slice, signed) ==
    IF indexOf(slice, chTilde, 0) # -1
    THEN SliceParse(SliceRange(binaryString, binaryLength,
                               parseInt(split(slice, <<chTilde>>)[1]),
                               parseInt(split(slice, <<chTilde>>)[2])), signed)
    ELSE SliceParse(SliceBit(binaryString, binaryLength, parseInt(slice)), signed)

\* Utilities.GetIntSliceFromBinary(inputNum, binaryLength, slice, signed)
GetIntSliceFromBinary(inputNum, binaryLength, slice, signed) ==
    IF Len(toStringRadix(inputNum, 2)) > binaryLength THEN Undefined
    ELSE SliceOfBinary(padStart(toStringRadix(inputNum, 2), binaryLength, chZero),
                       binaryLength, slice, signed)

\* Utilities.ConcatConstArray: pushes every element of subArray onto mainArray
ConcatConstArray(mainArray, subArray) == mainArray \o subArray

\* ------------------------------------------------------------------------
\* pattern.js: the field catalog and the decoder
\* ------------------------------------------------------------------------
tokRTCTime == <<82, 84, 67, 84, 105, 109, 101>>

tokSpeed == <<83, 112, 101, 101, 100>>

tokMV == <<77, 86>>

tokBV == <<66, 86>>

tokZO == <<90, 79>>

tokJO == <<74, 79>>

tokGR == <<71, 82>>

tokST == <<83, 84>>

\* a string value
Str(s) == [k |-> "string", v |-> s]

\* what a decoder returns: undefined, one value, or an array of entries
Nothing == [tag |-> "undefined", v |-> <<>>]

Scalar(x) == [tag |-> "value", v |-> x]

List(l) == [tag |-> "array", v |-> l]

\* a decoder that raised instead of returning
Thrown == [tag |-> "throw", v |-> <<>>]

\* A field definition of the catalog: multiplier 0, dict <<>> and tables <<>>
\* stand for "not configured"; dict maps raw texts to texts; tables is the
\* sequence of <<bit target, sub-field definition>> in the order of the file
FieldDef(name, dbtype, multiplier, dict, tables) ==
    [name |-> name, dbtype |-> dbtype, multiplier |-> multiplier,
     dict |-> dict, tables |-> tables]

\* A float field definition: decimals 0 stands for "not configured"
FloatDef(name, multiplier, decimals) ==
    [name |-> name, dbtype |-> "float", multiplier |-> multiplier,
     dict |-> <<>>, tables |-> <<>>, decimals |-> decimals]

\* A tpms field definition; a coefficient that is not configured is Undefined
TpmsDef(name, pressure_slope, pressure_const, temp_slope, temp_const) ==
    [name |-> name, dbtype |-> "tpms", multiplier |-> 0, dict |-> <<>>, tables |-> <<>>,
     pressure_slope |-> pressure_slope, pressure_const |-> pressure_const,
     temp_slope |-> temp_slope, temp_const |-> temp_const]

\* sub-fields of the bitfield of the catalog: "0" and "1~2"
statusTables ==
    << << <<48>>, FieldDef("st_0", "boolean", 0, <<>>, <<>>) >>,
       << <<49, 126, 50>>, FieldDef("st_12", "int", 0, <<>>, <<>>) >> >>

\* the dictionary of the string field of the catalog: "1" -> "D", "2" -> "R"
gearDict == (<<49>> :> <<68>>) @@ (<<50>> :> <<82>>)

\* The catalog loaded by the Pattern constructor (this.reportPattern): field
\* token -> field definition
reportPattern ==
    (tokRTCTime :> FieldDef("rtc",   "int",     0, <<>>, <<>>)) @@
    (tokSpeed   :> FieldDef("speed", "int",     2, <<>>, <<>>)) @@
    (tokMV      :> FieldDef("mv",    "int",     0, <<>>, <<>>)) @@
    (tokZO      :> FieldDef("zo",    "boolean", 0, <<>>, <<>>)) @@
    (tokJO      :> FieldDef("jo",    "J1939",   0, <<>>, <<>>)) @@
    (tokGR      :> FieldDef("gear",  "string",  0, gearDict, <<>>)) @@
    (tokST      :> FieldDef("st",    "U8",      0, <<>>, statusTables))

\* a raw value as an integer: a string is parsed, a number is taken as it is
IntOf(rawValue) == IF rawValue.k = "string" THEN parseInt(rawValue.v) ELSE rawValue

\* outputValue * patternInfo.multiplier: NaN stays NaN
Times(x, multiplier) == IF x.k = "number" THEN Num(x.v * multiplier) ELSE NaN

\* Pattern.GetValueInt
GetValueInt(rawValue, patternInfo) ==
    IF patternInfo.multiplier # 0
    THEN Times(IntOf(rawValue), patternInfo.multiplier)
    ELSE IntOf(rawValue)

\* Pattern.GetValueFloat
GetValueFloat(rawValue, patternInfo) ==
    LET outputValue == GetValueInt(rawValue, patternInfo)
    IN  IF patternInfo.decimals # 0
        THEN ParseFloatDecimal(outputValue, patternInfo.decimals)
        ELSE outputValue

\* Pattern.GetValueBoolean: parseInt(rawValue) === 1
GetValueBoolean(rawValue) ==
    [k |-> "boolean", v |-> IF IntOf(rawValue) = Num(1) THEN 1 ELSE 0]

\* the property name a raw value is used as
KeyOf(rawValue) == IF rawValue.k = "string" THEN rawValue.v ELSE toStringRadix(rawValue, 10)

\* Pattern.GetValueString: the dictionary entry of the raw value, if any
GetValueString(rawValue, patternInfo) ==
    IF KeyOf(rawValue) \in DOMAIN patternInfo.dict
    THEN Scalar(Str(patternInfo.dict[KeyOf(rawValue)]))
    ELSE Nothing

\* a property name that is an array index ("0", "7", "12")
IsIndexKey(key) ==
    /\ parseInt(key).k = "number"
    /\ parseInt(key).v >= 0
    /\ toStringRadix(parseInt(key), 10) = key

\* ForInOrder enumerating the table in the order of the file
ForInOrder_AsWritten(tables) == tables

\* for (const bitTarget in tables): the index names in ascending order, then
\* the other names in the order they were created
ForInOrder(tables) ==
    SortSeq(SelectSeq(tables, LAMBDA t : IsIndexKey(t[1])),
            LAMBDA a, b : parseInt(a[1]).v < parseInt(b[1]).v)
    \o SelectSeq(tables, LAMBDA t : ~IsIndexKey(t[1]))

\* Pattern.GetValueU8: outputList.push when the sub-field decoded to a value
GetValueU8Push(outputList, subInfo, tablesValue) ==
    IF tablesValue.tag = "undefined" THEN outputList
    ELSE Append(outputList,
                [name |-> subInfo.name, dbtype |-> subInfo.dbtype, value |-> tablesValue.v])

RECURSIVE GetValue(_, _)
\* Pattern.GetValueU8: one bit target; an undefined slice and a nested U8
\* sub-field are passed over
GetValueU8Target(outputList, subInfo, bitsValue) ==
    IF bitsValue = Undefined \/ subInfo.dbtype = "U8" THEN outputList
    ELSE GetValueU8Push(outputList, subInfo, GetValue(bitsValue, subInfo))

\* Pattern.GetValueU8: the loop over the bit targets, from the k-th on
RECURSIVE GetValueU8Loop(_, _, _, _)
GetValueU8Loop(inputValue, targets, k, outputList) ==
    IF k > Len(targets) THEN outputList
    ELSE GetValueU8Loop(inputValue, targets, k + 1,
            GetValueU8Target(outputList, targets[k][2],
                             GetIntSliceFromBinary(inputValue, 8, targets[k][1], FALSE)))

\* an output list as the result of a decoder: undefined when it is empty
ListOrNothing(outputList) == IF outputList = <<>> THEN Nothing ELSE List(outputList)

\* Pattern.GetValueU8; (0 <= inputValue <= 255) compares a boolean with 255
\* and so holds for every inputValue
GetValueU8(rawValue, patternInfo) ==
    ListOrNothing(GetValueU8Loop(GetValueInt(rawValue, patternInfo),
                                 ForInOrder(patternInfo.tables), 1, <<>>))

\* one axis of GetValueGForce: pushed unless the value is undefined
GForcePush(output, name, value) ==
    IF value # Undefined
    THEN Append(output, [name |-> name, dbtype |-> "int", value |-> value])
    ELSE output

\* Pattern.GetValueGForce: the first 12 characters as three groups of 4
GetValueGForce(rawValue, patternInfo) ==
    IF rawValue.k # "string" \/ Len(rawValue.v) < 12 THEN Nothing
    ELSE LET raw    == subarray(rawValue.v, 0, 12)
             xValue == ParseHexStringToSignedInt(subarray(raw, 0, 4), 32)
             yValue == ParseHexStringToSignedInt(subarray(raw, 4, 8), 32)
             zValue == ParseHexStringToSignedInt(subarray(raw, 8, 12), 32)
         IN  IF Throw \in {xValue, yValue, zValue} THEN Thrown
             ELSE ListOrNothing(
                      GForcePush(
                          GForcePush(
                              GForcePush(<<>>, patternInfo.name \o "_x", xValue),
                              patternInfo.name \o "_y", yValue),
                          patternInfo.name \o "_z", zValue))

\* a line terminator, which the `.` of a regular expression does not match
IsLineTerminator(c) == c \in {10, 13, 8232, 8233}

\* how many characters at the front of s one match of .{1,8} takes
PieceLength(s) ==
    IF \E i \in 1..Min(Len(s), 8) : IsLineTerminator(s[i])
    THEN (CHOOSE i \in 1..Min(Len(s), 8) :
              /\ IsLineTerminator(s[i])
              /\ \A j \in 1..(i - 1) : ~IsLineTerminator(s[j])) - 1
    ELSE Min(Len(s), 8)

\* the matches of /.{1,8}/g in s, from left to right: each is the longest
\* run of up to 8 characters that holds no line terminator, and a line
\* terminator belongs to no match
RECURSIVE Pieces(_)
PiecesAfter(s, n) == <<SubSeq(s, 1, n)>> \o Pieces(SubSeq(s, n + 1, Len(s)))

Pieces(s) ==
    IF s = <<>> THEN <<>>
    ELSE IF IsLineTerminator(s[1]) THEN Pieces(Tail(s))
    ELSE PiecesAfter(s, PieceLength(s))

\* what match gives for its matches: null (None) when there is none
MatchResult(pieces) == IF pieces = <<>> THEN None ELSE Some(pieces)

\* rawValue.match(/.{1,8}/g)
MatchPieces(s) == MatchResult(Pieces(s))

\* if (tire_temp < 0) tire_temp = 0 (NaN is not below 0)
NotBelowZero(value) ==
    IF value.k = "number" /\ IsNegative(value) THEN Num(0) ELSE value

\* slope * parseInt(hex, 16) + const, and 0 when that is below 0
TireEquation(slope, hex, const) ==
    NotBelowZero(Add(Mul(slope, parseIntRadix(hex, 16)), const))

\* the body of the loop of GetValueTPMS without the two tests for below 0
TirePush_Unclamped(output, piece, i, patternInfo) ==
    output \o
    << [name |-> "tire_temp_" \o ToString(i + 1), dbtype |-> "int",
        value |-> Add(Mul(patternInfo.temp_slope,
                          parseIntRadix(subarray(piece, 4, 6), 16)),
                      patternInfo.temp_const)],
       [name |-> "tire_pressure_" \o ToString(i + 1), dbtype |-> "float",
        value |-> Add(Mul(patternInfo.pressure_slope,
                          parseIntRadix(subarray(piece, 6, 8), 16)),
                      patternInfo.pressure_const)] >>

\* the body of the loop of GetValueTPMS: temperature from characters 5-6,
\* pressure from characters 7-8 of piece i (0-based)
TirePush(output, piece, i, patternInfo) ==
    output \o
    << [name |-> "tire_temp_" \o ToString(i + 1), dbtype |-> "int",
        value |-> TireEquation(patternInfo.temp_slope, subarray(piece, 4, 6),
                               patternInfo.temp_const)],
       [name |-> "tire_pressure_" \o ToString(i + 1), dbtype |-> "float",
        value |-> TireEquation(patternInfo.pressure_slope, subarray(piece, 6, 8),
                               patternInfo.pressure_const)] >>

RECURSIVE GetValueTPMSLoop(_, _, _, _)
GetValueTPMSLoop(rawValueArray, i, output, patternInfo) ==
    IF i >= Len(rawValueArray) THEN output
    ELSE GetValueTPMSLoop(rawValueArray, i + 1,
                          TirePush(output, rawValueArray[i + 1], i, patternInfo),
                          patternInfo)

\* Pattern.GetValueTPMS; the second test of the pressure equation compares
\* the boolean !pressure_const with undefined; rawValueArray.length raises
\* when match gave null
GetValueTPMS(rawValue, patternInfo) ==
    IF Len(rawValue.v) % 8 # 0 THEN Nothing
    ELSE IF \/ patternInfo.pressure_slope = Undefined
            \/ Not(patternInfo.pressure_const) = Undefined
         THEN Nothing
    ELSE IF \/ patternInfo.temp_slope = Undefined
            \/ patternInfo.temp_const = Undefined
         THEN Nothing
    ELSE LET rawValueArray == MatchPieces(rawValue.v)
         IN  IF ~rawValueArray.def THEN Thrown
             ELSE ListOrNothing(GetValueTPMSLoop(rawValueArray.v, 0, <<>>, patternInfo))

\* Pattern.GetValue: dispatch on dbtype; an unknown dbtype gives undefined
GetValue(rawValue, patternInfo) ==
    CASE patternInfo.dbtype = "int"     -> Scalar(GetValueInt(rawValue, patternInfo))
      [] patternInfo.dbtype = "float"   -> Scalar(GetValueFloat(rawValue, patternInfo))
      [] patternInfo.dbtype = "boolean" -> Scalar(GetValueBoolean(rawValue))
      [] patternInfo.dbtype = "string"  -> GetValueString(rawValue, patternInfo)
      [] patternInfo.dbtype = "U8"      -> GetValueU8(rawValue, patternInfo)
      [] patternInfo.dbtype = "g_force" -> GetValueGForce(rawValue, patternInfo)
      [] patternInfo.dbtype = "tpms"    -> GetValueTPMS(rawValue, patternInfo)
      [] OTHER                          -> Nothing

\* Pattern.ExtractValue: what one decoded position adds to the output list
ExtractValuePush(outputValueList, patternInfo, value) ==
    IF value.tag = "array" THEN ConcatConstArray(outputValueList, value.v)
    ELSE IF value.tag = "value"
         THEN Append(outputValueList,
                     [name |-> patternInfo.name, dbtype |-> patternInfo.dbtype,
                      value |-> value.v])
    ELSE outputValueList

\* ExtractValueLoop giving up at the first position it cannot look up
RECURSIVE ExtractValueLoop_StopsAtUnknown(_, _, _, _)
ExtractValueLoop_StopsAtUnknown(input, pattern, i, outputValueList) ==
    IF i >= Len(input) THEN outputValueList
    ELSE IF i < 0 \/ i >= Len(pattern) \/ pattern[i + 1] \notin DOMAIN reportPattern
         THEN outputValueList
    ELSE ExtractValueLoop_StopsAtUnknown(input, pattern, i + 1,
            ExtractValuePush(outputValueList, reportPattern[pattern[i + 1]],
                             GetValue(Str(input[i + 1]), reportPattern[pattern[i + 1]])))

\* Pattern.ExtractValue: the loop over the positions i = offset .. input.length-1
\* (i is 0-based as in the source)
RECURSIVE ExtractValueLoop(_, _, _, _)
ExtractValueLoop(input, pattern, i, outputValueList) ==
    IF i >= Len(input) THEN outputValueList
    ELSE IF i < 0 \/ i >= Len(pattern) \/ pattern[i + 1] \notin DOMAIN reportPattern
         THEN ExtractValueLoop(input, pattern, i + 1, outputValueList)
    ELSE ExtractValueLoop(input, pattern, i + 1,
            ExtractValuePush(outputValueList, reportPattern[pattern[i + 1]],
                             GetValue(Str(input[i + 1]), reportPattern[pattern[i + 1]])))

\* Pattern.ExtractValue: undefined when nothing was decoded
ExtractValue(input, pattern, offset) ==
    LET outputValueList == ExtractValueLoop(input, pattern, offset, <<>>)
    IN  IF outputValueList # <<>> THEN Some(outputValueList) ELSE None

\* ------------------------------------------------------------------------
\* picture.js: the picture reassembler
\* ------------------------------------------------------------------------
\* a === b on numbers (NaN is not equal to itself)
StrictEq(a, b) == a.k # "NaN" /\ a = b

strJpg == <<106, 112, 103>>

\* this.picture === undefined
NoPicture ==
    [def |-> FALSE, pictureRTC |-> Undefined, currentPackageID |-> Undefined,
     totalPackageCount |-> Undefined, pictureContent |-> <<>>,
     saveTarget |-> "database", deviceID |-> Undefined, fileName |-> <<>>]

\* Picture.ExtractPictureFrame: <<RTC, package id, total, size, data>>
ExtractPictureFrame(buffer) ==
    <<parseIntHexOfBytes(subarray(buffer, 0, 4)),
      parseIntHexOfBytes(subarray(buffer, 4, 5)),
      parseIntHexOfBytes(subarray(buffer, 5, 6)),
      parseIntHexOfBytes(subarray(buffer, 6, 8)),
      subarrayFrom(buffer, 8)>>

\* Picture.CheckPictureFrame: a placeholder that accepts every frame
CheckPictureFrame(info) == TRUE

\* new Picture(firstBuffer, deviceID, dbClient) under the configured target
PictureNew(firstBuffer, deviceID, target) ==
    LET firstBufferInfo == ExtractPictureFrame(firstBuffer)
    IN  [def |-> TRUE,
         pictureRTC |-> firstBufferInfo[1],
         currentPackageID |-> firstBufferInfo[2],
         totalPackageCount |-> firstBufferInfo[3],
         pictureContent |-> firstBufferInfo[5],
         saveTarget |-> IF target = "folder" THEN "folder" ELSE "database",
         deviceID |-> deviceID,
         fileName |-> toStringRadix(deviceID, 10) \o <<95>>
                      \o toStringRadix(firstBufferInfo[1], 10) \o <<46>> \o strJpg]

\* Picture.WriteToFolder / Picture.WriteToDB: the hand-over to the sink
WriteToFolder(pic, content) ==
    [sink |-> "folder", key |-> <<46, 47>> \o pic.fileName, content |-> content]

WriteToDB(pic, content) ==
    [sink |-> "database",
     key |-> toStringRadix(pic.deviceID, 10) \o <<47>> \o pic.fileName,
     content |-> content]

\* AddPicturePackage putting the new chunk in front of the content
AddPicturePackage_Prepends(pic, pictureBuffer) ==
    LET pictureInfo == ExtractPictureFrame(pictureBuffer)
        content     == pictureInfo[5] \o pic.pictureContent
        added       == [pic EXCEPT !.pictureContent = content,
                                   !.currentPackageID = pictureInfo[2]]
    IN  IF ~CheckPictureFrame(pictureInfo) THEN <<pic, <<>>>>
        ELSE IF StrictEq(pic.totalPackageCount, pictureInfo[2])
             THEN <<added, <<IF pic.saveTarget = "folder"
                             THEN WriteToFolder(added, content)
                             ELSE WriteToDB(added, content)>>>>
             ELSE <<added, <<>>>>

\* Picture.AddPicturePackage: <<picture after the call, sink calls made>>
AddPicturePackage(pic, pictureBuffer) ==
    LET pictureInfo == ExtractPictureFrame(pictureBuffer)
        content     == pic.pictureContent \o pictureInfo[5]
        added       == [pic EXCEPT !.pictureContent = content,
                                   !.currentPackageID = pictureInfo[2]]
    IN  IF ~CheckPictureFrame(pictureInfo) THEN <<pic, <<>>>>
        ELSE IF StrictEq(pic.totalPackageCount, pictureInfo[2])
             THEN <<added, <<IF pic.saveTarget = "folder"
                             THEN WriteToFolder(added, content)
                             ELSE WriteToDB(added, content)>>>>
             ELSE <<added, <<>>>>

\* Picture.isDone
isDone(pic) == StrictEq(pic.currentPackageID, pic.totalPackageCount)

\* ------------------------------------------------------------------------
\* console_input.js
\* ------------------------------------------------------------------------
chBar == 124

\* String.prototype.trim
RECURSIVE TrimRight(_)
TrimRight(s) ==
    IF s # <<>> /\ IsWhite(s[Len(s)]) THEN TrimRight(SubSeq(s, 1, Len(s) - 1)) ELSE s

trim(s) == TrimRight(TrimLeft(s))

\* HandleInput: count is what server.getConnections reports, connectedSocket
\* the registry (property key to connection); reading SendCommand of an
\* absent entry raises a TypeError inside the getConnections callback
HandleInput(cmd, id, count, connectedSocket) ==
    IF count > 0
    THEN IF id \in DOMAIN connectedSocket
         THEN [sent |-> <<[to |-> connectedSocket[id],
                           bytes |-> BufferFromAscii(cmd \o chCRLF)]>>,
               raised |-> FALSE, log |-> "Send command"]
         ELSE [sent |-> <<>>, raised |-> TRUE, log |-> "none"]
    ELSE [sent |-> <<>>, raised |-> FALSE, log |-> "not on the connected list"]

\* the stdin listener of StartConsoleInput
StartConsoleInput(data, count, connectedSocket) ==
    LET input == trim(data)
    IN  IF indexOf(input, chBar, 0) = -1
        THEN [sent |-> <<>>, raised |-> FALSE, log |-> "Input does not contain '|'"]
        ELSE HandleInput(split(input, <<chBar>>)[2], split(input, <<chBar>>)[1],
                         count, connectedSocket)

\* ------------------------------------------------------------------------
\* atrackSocket.js: the connection state machine (class ClientSocket)
\* The handlers are operators on the record `this` of the object's fields;
\* socketOut / dbOut / pictureOut collect what one handler run writes to the
\* socket, the time-series sink and the picture sink, `raised` tells that the
\* run ended in an exception, `handler` names the branch RecievedData took.
\* ------------------------------------------------------------------------
cmdForm == <<36, 70, 79, 82, 77>>

cmdJ1708 == <<36, 49, 55, 48, 56>>

cmdJ1939 == <<36, 70, 77, 83, 67>>

strAT == <<65, 84>>

strQuery == <<61, 63>>

strFE02 == <<102, 101, 48, 50>>

strNineZeros == <<48, 48, 48, 48, 48, 48, 48, 48, 48>>

reportBaseFormat ==
    << <<71, 80, 83, 84, 105, 109, 101>>, tokRTCTime,
       <<83, 101, 110, 100, 84, 105, 109, 101>>, <<76, 78, 71>>, <<76, 65, 84>>,
       <<72, 101, 97, 100, 105, 110, 103>>, <<82, 101, 112, 111, 114, 116, 73, 68>>,
       <<79, 100, 111, 109, 101, 116, 101, 114>>, <<72, 68, 79, 80>>,
       <<73, 110, 112, 117, 116, 83, 116, 97, 116, 117, 115>>, tokSpeed,
       <<79, 117, 116, 112, 117, 116, 83, 116, 97, 116, 117, 115>>,
       <<65, 110, 97, 108, 111, 103, 73, 110, 112, 117, 116, 86, 97, 108, 117, 101>>,
       <<68, 114, 105, 118, 101, 114, 73, 68>>, <<49, 115, 116, 84, 101, 109, 112>>,
       <<50, 110, 100, 84, 101, 109, 112>>, <<84, 101, 120, 116, 77, 115, 103>> >>

\* HandleKeepAliveMsg reading the sequence number from its low byte only
HandleKeepAliveMsg_LowByteSeq(this, buffer) ==
    [this EXCEPT !.deviceID = BigInt(ReadUIntBE(subarray(buffer, 2, 10))),
                 !.seqNum   = parseIntHexOfBytes(subarray(buffer, 11, 12))]

\* ClientSocket.HandleKeepAliveMsg
HandleKeepAliveMsg(this, buffer) ==
    [this EXCEPT !.deviceID = BigInt(ReadUIntBE(subarray(buffer, 2, 10))),
                 !.seqNum   = parseIntHexOfBytes(subarray(buffer, 10, 12))]

\* CheckReportType sniffing every report frame anew
CheckReportType_Resniffs(this, buffer) ==
    IF subarray(buffer, 2, 3) = <<chComma>>
    THEN [this EXCEPT !.reportType = "ascii"]
    ELSE [this EXCEPT !.reportType = "binary"]

\* ClientSocket.CheckReportType: sniffed once, from the byte at offset 2
CheckReportType(this, buffer) ==
    IF this.reportType # "undefined" THEN this
    ELSE IF subarray(buffer, 2, 3) = <<chComma>>
         THEN [this EXCEPT !.reportType = "ascii"]
         ELSE [this EXCEPT !.reportType = "binary"]

\* ClientSocket.CheckReportMsg: not blank and first character a digit
CheckReportMsg(msg) ==
    IF IsStringEmptyOrSpaces(msg) THEN FALSE
    ELSE IsDigit(msg[1])

\* ClientSocket.WriteReport: the loop over the report lines from line i on;
\* TimeSeriesDB.WriteData iterates the data list, so it raises on undefined
RECURSIVE WriteReportLoop(_, _, _)
WriteReportLoop(this, reportLines, i) ==
    IF i > Len(reportLines) THEN this
    ELSE IF ~CheckReportMsg(reportLines[i]) THEN WriteReportLoop(this, reportLines, i + 1)
    ELSE LET frame     == split(reportLines[i], <<chComma>>)
             data      == ExtractValue(frame, this.reportFinalFormat.v, 0)
             timestamp == (IF Len(frame) >= 2 THEN frame[2] ELSE strUndefined)
                          \o strNineZeros
         IN  IF ~data.def THEN [this EXCEPT !.raised = TRUE]
             ELSE WriteReportLoop(
                    [this EXCEPT !.dbOut = Append(@,
                        [deviceID  |-> toStringRadix(this.deviceID, 10),
                         timestamp |-> timestamp,
                         dataList  |-> data.v])],
                    reportLines, i + 1)

WriteReport(this, reportLines) == WriteReportLoop(this, reportLines, 1)

\* HandleReportMsgAscii decoding against the base format before resolution
HandleReportMsgAscii_Ungated(this, buffer) ==
    LET hCRC    == GetHeaderValueAscii(buffer, 3, "String")
        hLength == GetHeaderValueAscii(buffer, hCRC[2], "String")
        hSeqNum == GetHeaderValueAscii(buffer, hLength[2], "Int")
        hID     == GetHeaderValueAscii(buffer, hSeqNum[2], "Int")
        t1 == [this EXCEPT
                 !.deviceID = IF this.deviceID = Undefined THEN hID[1] ELSE @,
                 !.seqNum   = hSeqNum[1]]
        t2 == IF t1.reportFinalFormat.def THEN t1
              ELSE [t1 EXCEPT !.reportFinalFormat = Some(reportBaseFormat)]
        dataFrame == toAscii(subarrayFrom(buffer, hID[2]))
        t3 == WriteReport(t2, split(dataFrame, chCRLF))
    IN  [t3 EXCEPT !.reportFinalFormat = t1.reportFinalFormat]

\* HandleReportMsgAscii taking the device id of every report header
HandleReportMsgAscii_AlwaysTakesID(this, buffer) ==
    LET hCRC    == GetHeaderValueAscii(buffer, 3, "String")
        hLength == GetHeaderValueAscii(buffer, hCRC[2], "String")
        hSeqNum == GetHeaderValueAscii(buffer, hLength[2], "Int")
        hID     == GetHeaderValueAscii(buffer, hSeqNum[2], "Int")
        t1 == [this EXCEPT !.deviceID = hID[1], !.seqNum = hSeqNum[1]]
        dataFrame == toAscii(subarrayFrom(buffer, hID[2]))
    IN  IF ~t1.reportFinalFormat.def THEN t1
        ELSE WriteReport(t1, split(dataFrame, chCRLF))

\* ClientSocket.HandleReportMsgAscii
HandleReportMsgAscii(this, buffer) ==
    LET hCRC    == GetHeaderValueAscii(buffer, 3, "String")
        hLength == GetHeaderValueAscii(buffer, hCRC[2], "String")
        hSeqNum == GetHeaderValueAscii(buffer, hLength[2], "Int")
        hID     == GetHeaderValueAscii(buffer, hSeqNum[2], "Int")
        headerCurrentIndex == hID[2]
        t1 == [this EXCEPT
                 !.deviceID = IF this.deviceID = Undefined THEN hID[1] ELSE @,
                 !.seqNum   = hSeqNum[1]]
        dataFrame == toAscii(subarrayFrom(buffer, headerCurrentIndex))
    IN  IF ~t1.reportFinalFormat.def THEN t1
        ELSE WriteReport(t1, split(dataFrame, chCRLF))

\* ClientSocket.HandleReportMsgBinary: not implemented in the source
HandleReportMsgBinary(this, buffer) == this

\* ClientSocket.HandleReportMsg
HandleReportMsg(this, buffer) ==
    LET t1 == CheckReportType(this, buffer)
    IN  IF t1.reportType = "ascii" THEN HandleReportMsgAscii(t1, buffer)
        ELSE IF t1.reportType = "binary" THEN HandleReportMsgBinary(t1, buffer)
        ELSE t1

\* report.replace(/^"(.*)"$/, '$1'): one pair of enclosing quotes is removed
\* when the text between them holds no line terminator
StripOuterQuotes(report) ==
    IF /\ Len(report) >= 2
       /\ report[1] = chDQuote
       /\ report[Len(report)] = chDQuote
       /\ \A i \in 2..(Len(report) - 1) : ~IsLineTerminator(report[i])
    THEN SubSeq(report, 2, Len(report) - 1)
    ELSE report

\* reportFormat.replace(/['"]+/g, ''): every quote character is removed
RECURSIVE RemoveQuotes(_)
RemoveQuotes(s) ==
    IF s = <<>> THEN <<>>
    ELSE IF s[1] \in {chDQuote, chSQuote} THEN RemoveQuotes(Tail(s))
    ELSE <<s[1]>> \o RemoveQuotes(Tail(s))

\* ReportFormatSplit keeping the element before the first '%'
ReportFormatSplit_KeepsFirst(reportFormat) == split(RemoveQuotes(reportFormat), <<chPercent>>)

\* ClientSocket.ReportFormatSplit: split on '%', first element dropped
ReportFormatSplit(reportFormat) == Tail(split(RemoveQuotes(reportFormat), <<chPercent>>))

\* SaveReportFormat recording every $FORM response, not only the first
SaveReportFormat_FormUnguarded(this, input) ==
    LET cmd   == input[1]
        value == split(input[2], <<chComma>>)
    IN  CASE cmd = cmdForm ->
               IF Len(value) < 4 THEN [this EXCEPT !.raised = TRUE]
               ELSE IF StripOuterQuotes(value[4]) # <<>>
                    THEN [this EXCEPT !.reportCustomFormat = Some(ReportFormatSplit(value[4])),
                                      !.isReportCustom = "true"]
                    ELSE [this EXCEPT !.isReportCustom = "false"]
          [] cmd = cmdJ1708 ->
               IF this.isReportJ1708 # "undefined" THEN this
               ELSE IF StripOuterQuotes(value[1]) # <<>>
                    THEN [this EXCEPT !.reportJ1XXXFormat = Some(ReportFormatSplit(value[1])),
                                      !.isReportJ1708 = "true"]
                    ELSE [this EXCEPT !.isReportJ1708 = "false"]
          [] cmd = cmdJ1939 ->
               IF this.isReportJ1939 # "undefined" THEN this
               ELSE IF Len(value) < 2 THEN [this EXCEPT !.raised = TRUE]
               ELSE IF StripOuterQuotes(value[2]) # <<>>
                    THEN [this EXCEPT !.reportJ1XXXFormat = Some(ReportFormatSplit(value[2])),
                                      !.isReportJ1939 = "true"]
                    ELSE [this EXCEPT !.isReportJ1939 = "false"]
          [] OTHER -> this

\* ClientSocket.SaveReportFormat; input = the response line split on '='.
\* The format string is value[3], value[0] or value[1]; reading a property
\* of a missing (undefined) argument raises
SaveReportFormat(this, input) ==
    LET cmd   == input[1]
        value == split(input[2], <<chComma>>)
    IN  CASE cmd = cmdForm ->
               IF this.isReportCustom # "undefined" THEN this
               ELSE IF Len(value) < 4 THEN [this EXCEPT !.raised = TRUE]
               ELSE IF StripOuterQuotes(value[4]) # <<>>
                    THEN [this EXCEPT !.reportCustomFormat = Some(ReportFormatSplit(value[4])),
                                      !.isReportCustom = "true"]
                    ELSE [this EXCEPT !.isReportCustom = "false"]
          [] cmd = cmdJ1708 ->
               IF this.isReportJ1708 # "undefined" THEN this
               ELSE IF StripOuterQuotes(value[1]) # <<>>
                    THEN [this EXCEPT !.reportJ1XXXFormat = Some(ReportFormatSplit(value[1])),
                                      !.isReportJ1708 = "true"]
                    ELSE [this EXCEPT !.isReportJ1708 = "false"]
          [] cmd = cmdJ1939 ->
               IF this.isReportJ1939 # "undefined" THEN this
               ELSE IF Len(value) < 2 THEN [this EXCEPT !.raised = TRUE]
               ELSE IF StripOuterQuotes(value[2]) # <<>>
                    THEN [this EXCEPT !.reportJ1XXXFormat = Some(ReportFormatSplit(value[2])),
                                      !.isReportJ1939 = "true"]
                    ELSE [this EXCEPT !.isReportJ1939 = "false"]
          [] OTHER -> this

\* the three flags have all left undefined
AllFormatsReceived(this) ==
    "undefined" \notin {this.isReportCustom, this.isReportJ1708, this.isReportJ1939}

\* base.concat(format): an undefined format is appended as one undefined element
ConcatFormat(base, format) ==
    IF format.def THEN base \o format.v ELSE Append(base, <<>>)

\* UpdateReportFormatStatus appending to the format computed by the last call
UpdateReportFormatStatus_Accumulates(this) ==
    LET c == this.isReportCustom = "true"
        a == this.isReportJ1708 = "true"
        b == this.isReportJ1939 = "true"
        base == IF this.reportFinalFormat.def THEN this.reportFinalFormat.v
                ELSE reportBaseFormat
    IN  IF ~AllFormatsReceived(this) THEN this
        ELSE IF c /\ ~a /\ ~b
             THEN [this EXCEPT !.reportFormatType = "custom",
                     !.reportFinalFormat = Some(ConcatFormat(base, this.reportCustomFormat))]
        ELSE IF ~c /\ a /\ ~b
             THEN [this EXCEPT !.reportFormatType = "j1708",
                     !.reportFinalFormat = Some(ConcatFormat(base, this.reportJ1XXXFormat))]
        ELSE IF ~c /\ ~a /\ b
             THEN [this EXCEPT !.reportFormatType = "j1939",
                     !.reportFinalFormat = Some(ConcatFormat(base, this.reportJ1XXXFormat))]
        ELSE [this EXCEPT !.reportFormatType = "base",
                !.reportFinalFormat = Some(reportBaseFormat)]

\* ClientSocket.UpdateReportFormatStatus (its boolean result is AllFormatsReceived)
UpdateReportFormatStatus(this) ==
    LET c == this.isReportCustom = "true"
        a == this.isReportJ1708 = "true"
        b == this.isReportJ1939 = "true"
    IN  IF ~AllFormatsReceived(this) THEN this
        ELSE IF c /\ ~a /\ ~b
             THEN [this EXCEPT !.reportFormatType = "custom",
                     !.reportFinalFormat = Some(ConcatFormat(reportBaseFormat, this.reportCustomFormat))]
        ELSE IF ~c /\ a /\ ~b
             THEN [this EXCEPT !.reportFormatType = "j1708",
                     !.reportFinalFormat = Some(ConcatFormat(reportBaseFormat, this.reportJ1XXXFormat))]
        ELSE IF ~c /\ ~a /\ b
             THEN [this EXCEPT !.reportFormatType = "j1939",
                     !.reportFinalFormat = Some(ConcatFormat(reportBaseFormat, this.reportJ1XXXFormat))]
        ELSE [this EXCEPT !.reportFormatType = "base",
                !.reportFinalFormat = Some(reportBaseFormat)]

\* ClientSocket.HandleOtherMsg: the loop over the CRLF-separated lines
RECURSIVE HandleOtherLoop(_, _, _)
HandleOtherLoop(this, dataSplit, i) ==
    IF i > Len(dataSplit) THEN this
    ELSE IF IsStringEmptyOrSpaces(dataSplit[i]) THEN HandleOtherLoop(this, dataSplit, i + 1)
    ELSE LET dataCmdSplit == split(dataSplit[i], <<chEq>>)
         IN  IF Len(dataCmdSplit) > 1 /\ dataCmdSplit[1] \in {cmdForm, cmdJ1708, cmdJ1939}
             THEN LET saved == SaveReportFormat(this, dataCmdSplit)
                  IN  IF saved.raised THEN saved
                      ELSE HandleOtherLoop(UpdateReportFormatStatus(saved), dataSplit, i + 1)
             ELSE HandleOtherLoop(this, dataSplit, i + 1)

\* HandleOtherMsg reading command responses whatever the report type
HandleOtherMsg_AnyReportType(this, buffer) ==
    HandleOtherLoop(this, split(toAscii(buffer), chCRLF), 1)

\* ClientSocket.HandleOtherMsg
HandleOtherMsg(this, buffer) ==
    IF this.reportType = "ascii"
    THEN HandleOtherLoop(this, split(toAscii(buffer), chCRLF), 1)
    ELSE this

\* HandlePictureMsg leaving the transfer in place after its last packet, as
\* it would if the reset waited for the write
HandlePictureMsg_KeepsDone(this, buffer, target) ==
    LET bufferSeqNum     == parseIntHexOfBytes(subarray(buffer, 6, 8))
        pictureDataFrame == subarrayFrom(buffer, 16)
        t1               == [this EXCEPT !.seqNum = bufferSeqNum]
    IN  IF Len(subarray(buffer, 8, 16)) < 8 THEN [this EXCEPT !.raised = TRUE]
        ELSE IF ~this.picture.def
             THEN [t1 EXCEPT !.picture = PictureNew(pictureDataFrame, this.deviceID, target)]
        ELSE LET r == AddPicturePackage(this.picture, pictureDataFrame)
             IN  [t1 EXCEPT !.picture = r[1], !.pictureOut = @ \o r[2]]

\* ClientSocket.HandlePictureMsg; readBigUint64BE raises on a frame that has
\* fewer than 8 bytes from offset 8
HandlePictureMsg(this, buffer, target) ==
    LET bufferSeqNum     == parseIntHexOfBytes(subarray(buffer, 6, 8))
        pictureDataFrame == subarrayFrom(buffer, 16)
        t1               == [this EXCEPT !.seqNum = bufferSeqNum]
    IN  IF Len(subarray(buffer, 8, 16)) < 8 THEN [this EXCEPT !.raised = TRUE]
        ELSE IF ~this.picture.def
             THEN [t1 EXCEPT !.picture = PictureNew(pictureDataFrame, this.deviceID, target)]
        ELSE LET r == AddPicturePackage(this.picture, pictureDataFrame)
             IN  [t1 EXCEPT !.picture = IF isDone(r[1]) THEN NoPicture ELSE r[1],
                            !.pictureOut = @ \o r[2]]

\* ClientSocket.SendACK
SendACK(this) ==
    IF Truthy(this.deviceID) /\ Truthy(this.seqNum)
    THEN LET seqNumHexString == padStart(toStringRadix(this.seqNum, 16), 4, chZero)
             ackMsg == strFE02 \o padStart(toStringRadix(this.deviceID, 16), 16, chZero)
                       \o seqNumHexString
         IN  [this EXCEPT !.socketOut = Append(@, BufferFromHex(ackMsg))]
    ELSE this

\* ClientSocket.SendCommand
SendCommand(this, command) ==
    [this EXCEPT !.socketOut = Append(@, BufferFromAscii(command \o chCRLF))]

\* DispatchFrame taking every FE 02 frame for a keep-alive, whatever its length
DispatchFrame_AnyLength(this, buffer, target) ==
    LET prefix == subarray(buffer, 0, 2)
    IN  IF prefix = <<254, 2>>
        THEN HandleKeepAliveMsg([this EXCEPT !.handler = "keepalive"], buffer)
        ELSE IF prefix = <<64, 80>>
        THEN HandleReportMsg([this EXCEPT !.handler = "report"], buffer)
        ELSE IF prefix = <<64, 82>>
        THEN HandlePictureMsg([this EXCEPT !.handler = "picture"], buffer, target)
        ELSE HandleOtherMsg([this EXCEPT !.handler = "other"], buffer)

\* ClientSocket.RecievedData: the branch chosen from the two-byte prefix
DispatchFrame(this, buffer, target) ==
    LET prefix == subarray(buffer, 0, 2)
    IN  IF prefix = <<254, 2>> /\ Len(buffer) = 12
        THEN HandleKeepAliveMsg([this EXCEPT !.handler = "keepalive"], buffer)
        ELSE IF prefix = <<64, 80>>
        THEN HandleReportMsg([this EXCEPT !.handler = "report"], buffer)
        ELSE IF prefix = <<64, 82>>
        THEN HandlePictureMsg([this EXCEPT !.handler = "picture"], buffer, target)
        ELSE HandleOtherMsg([this EXCEPT !.handler = "other"], buffer)

\* ClientSocket.RecievedData: the liveness timestamp and the acknowledgment,
\* which a handler that raised never reaches
StampAndAck(handled, time) ==
    IF handled.raised THEN handled
    ELSE SendACK([handled EXCEPT !.lastAlive = time])

\* ClientSocket.RecievedData at time `time`
RecievedData(this, buffer, target, time) ==
    StampAndAck(DispatchFrame(this, buffer, target), time)

\* GetReportFormat asking for all three customizations while one is unknown
GetReportFormat_AsksAll(this) ==
    IF AllFormatsReceived(this)
    THEN [UpdateReportFormatStatus(this) EXCEPT !.getReportFormatInterval = FALSE]
    ELSE SendCommand(SendCommand(SendCommand(this, strAT \o cmdForm \o strQuery),
                                 strAT \o cmdJ1708 \o strQuery),
                     strAT \o cmdJ1939 \o strQuery)

\* ClientSocket.GetReportFormat
GetReportFormat(this) ==
    IF AllFormatsReceived(this)
    THEN [UpdateReportFormatStatus(this) EXCEPT !.getReportFormatInterval = FALSE]
    ELSE LET s1 == IF this.isReportCustom = "undefined"
                   THEN SendCommand(this, strAT \o cmdForm \o strQuery) ELSE this
             s2 == IF this.isReportJ1708 = "undefined"
                   THEN SendCommand(s1, strAT \o cmdJ1708 \o strQuery) ELSE s1
         IN  IF this.isReportJ1939 = "undefined"
             THEN SendCommand(s2, strAT \o cmdJ1939 \o strQuery) ELSE s2

\* ------------------------------------------------------------------------
\* ClientSocket timers, GetDeviceID and the connection handler of main.js
\* ------------------------------------------------------------------------
\* process.env.SOCKET_TIMEOUT || 60000
SOCKET_TIMEOUT == 60000

\* process.env.GET_REPORT_FORMAT_INTERVAL || 30000
GET_REPORT_FORMAT_INTERVAL == 30000

\* the delay of the one-shot GetReportFormat timer of the constructor
GraceDelay == 5000

\* the period of the checkDeviceID interval of GetDeviceID
PollPeriod == 100

\* the delay of the timer of GetDeviceID that resolves with undefined
DeviceIDTimeout == 60000

\* CheckTimeout closing only after more than the timeout
CheckTimeout_Strict(time, lastAliveAt) == time - lastAliveAt > SOCKET_TIMEOUT

\* CheckTimeout closing only after two timeouts
CheckTimeout_TwoPeriods(time, lastAliveAt) == time - lastAliveAt >= 2 * SOCKET_TIMEOUT

\* ClientSocket.CheckTimeout: whether socket.end() is called
CheckTimeout(time, lastAliveAt) == time - lastAliveAt >= SOCKET_TIMEOUT

\* ClientSocket.ClearSocket on the two interval handles (armed or not)
ClearSocket(handles) ==
    [handles EXCEPT !.keepAliveCheck = FALSE, !.getReportFormatInterval = FALSE]

\* ClientSocket.GetDeviceID: the promise returned at `time` when the
\* identifier is id; awaited tells whether main.js awaits it
GetDeviceID(id, time, awaited) ==
    IF Truthy(id)
    THEN [callTime |-> time, state |-> "resolved", value |-> id, resolvedAt |-> time,
          poll |-> FALSE, polledAt |-> time, timeout |-> FALSE, awaited |-> awaited]
    ELSE [callTime |-> time, state |-> "pending", value |-> Undefined, resolvedAt |-> 0,
          poll |-> TRUE, polledAt |-> time, timeout |-> TRUE, awaited |-> awaited]

\* the callback of the checkDeviceID interval of promise p
CheckDeviceID(p, id, time) ==
    IF Truthy(id)
    THEN [p EXCEPT !.poll = FALSE, !.polledAt = time,
                   !.state = "resolved",
                   !.value = IF p.state = "pending" THEN id ELSE @,
                   !.resolvedAt = IF p.state = "pending" THEN time ELSE @]
    ELSE [p EXCEPT !.polledAt = time]

\* the callback of the 60 s timer of promise p: resolve(undefined) has no
\* effect on a promise that is resolved already
DeviceIDTimedOut(p, time) ==
    [p EXCEPT !.poll = FALSE, !.timeout = FALSE,
              !.state = "resolved",
              !.resolvedAt = IF p.state = "pending" THEN time ELSE @]

\* main.js after `await atrackSocket.GetDeviceID()`: the connection is stored
\* under a truthy client id, and ended otherwise
Continuation(before, after, time, conn) ==
    IF before.awaited /\ before.state = "pending" /\ after.state = "resolved"
    THEN IF Truthy(after.value)
         THEN [conn EXCEPT !.registered = TRUE]
         ELSE [conn EXCEPT !.endLog = Append(@, [by |-> "main", at |-> time])]
    ELSE conn

\* a timer callback that is due at `due` can run at `time`, both read from
\* Date.now()
TimerRuns(due, time) == time >= due - MaxEarly

\* The checkDeviceID interval of p is re-armed PollPeriod after the start of
\* each run, and each run is up to MaxEarly early and up to MaxDrift late:
\* counted from polledAt (the instant the interval was armed, or that of
\* its last run followed here) its k-th run is at polledAt + k * (PollPeriod
\* - MaxEarly) at the earliest and at polledAt + k * (PollPeriod + MaxDrift)
\* at the latest. The runs that find no identifier change nothing and are
\* not followed one by one.

\* how many runs of the checkDeviceID interval of p fit up to `time`
PollCount(p, time) == (time - p.polledAt) \div (PollPeriod - MaxEarly)

\* `time` is an instant at which the checkDeviceID interval of p can run
PollRuns(p, time) ==
    /\ p.poll
    /\ PollCount(p, time) >= 1
    /\ time - p.polledAt <= PollCount(p, time) * (PollPeriod + MaxDrift)

\* the latest instant up to `time` at which the checkDeviceID interval of p
\* can have run (polledAt when no run fits)
PollLast(p, time) ==
    IF PollCount(p, time) < 1 THEN p.polledAt
    ELSE Min(time, p.polledAt + PollCount(p, time) * (PollPeriod + MaxDrift))

\* the latest instant at which the run of the checkDeviceID interval of p
\* that finds the identifier is due: the identifier is truthy since the
\* instant `since`, so the last run without it was at that instant or before
PollLatest(p, since) == PollLast(p, since) + PollPeriod

\* the earliest instant after `time` at which the checkDeviceID interval of
\* p can run
PollSoonest(p, time) ==
    IF PollRuns(p, time + 1) THEN time + 1
    ELSE p.polledAt + (PollPeriod - MaxEarly) * (PollCount(p, time + 1) + 1)

\* ------------------------------------------------------------------------
\* Inbound frames the model feeds to a connection
\* ------------------------------------------------------------------------
\* keep-alive: FE 02, 8-byte device id, 2-byte sequence number
KeepAliveFrame(id3, seq2) == <<254, 2, 0, 0, 0, 0, 0>> \o id3 \o seq2

KeepAliveFrames ==
    {KeepAliveFrame(id3, seq2) :
        id3 \in {<<0, 0, 1>>, <<0, 1, 2>>, <<0, 0, 0>>},
        seq2 \in {<<0, 1>>, <<0, 0>>, <<255, 255>>}}

\* FE 02 with a length other than 12
frShortKeepAlive == <<254, 2, 0, 0, 0, 0, 0, 0, 0, 1, 0>>

\* "@P,c,9,7,5,12,34,56\r\n": ASCII report, sequence 7, device 5, one line
frReport75 == <<64, 80, 44, 99, 44, 57, 44, 55, 44, 53, 44,
                49, 50, 44, 51, 52, 44, 53, 54, 13, 10>>

\* "@P,c,9,0,6,x\r\n\r\n8,9\r\n1\r\n": sequence 0, device 6; a non-digit line, a
\* blank line, a two-field line and a one-field line
frReport06 == <<64, 80, 44, 99, 44, 57, 44, 48, 44, 54, 44,
                120, 13, 10, 13, 10, 56, 44, 57, 13, 10, 49, 13, 10>>

\* "@P,c,9,7,5,1,2,3,4,5,6,7,8,9,10,11,12,13,14,15,16,17,1\r\n": 18 fields
frReportLong == <<64, 80, 44, 99, 44, 57, 44, 55, 44, 53, 44,
                  49, 44, 50, 44, 51, 44, 52, 44, 53, 44, 54, 44, 55, 44, 56, 44, 57, 44,
                  49, 48, 44, 49, 49, 44, 49, 50, 44, 49, 51, 44, 49, 52, 44, 49, 53, 44,
                  49, 54, 44, 49, 55, 44, 49, 13, 10>>

\* "@P,c,9,7,5,1\r\n8,9\r\n": sequence 7, device 5; a line of one field, which
\* no catalog token decodes, then a line with an RTC time
frReportNone == <<64, 80, 44, 99, 44, 57, 44, 55, 44, 53, 44,
                  49, 13, 10, 56, 44, 57, 13, 10>>

\* "@P,c,9,x,y,1,2\r\n": header fields that are not integers
frReportNaN == <<64, 80, 44, 99, 44, 57, 44, 120, 44, 121, 44, 49, 44, 50, 13, 10>>

\* "@P,c,9,1048576,5,1\r\n": a sequence field of seven digits, device 5
frReportBigSeq == <<64, 80, 44, 99, 44, 57, 44, 49, 48, 52, 56, 53, 55, 54, 44,
                    53, 44, 49, 13, 10>>

\* "@P" followed by a byte that is not a comma: binary report
frReportBinary == <<64, 80, 1, 2, 3, 4>>

\* picture packet: "@R", CRC, length, sequence, device id, then the data
\* frame RTC(4) index(1) total(1) size(2) payload
PictureFrame(seq, cur, total, payload) ==
    <<64, 82, 0, 0, 0, 0, 0, seq>> \o <<0, 0, 0, 0, 0, 0, 0, 9>>
    \o <<0, 0, 0, 7, cur, total, 0, Len(payload)>> \o payload

PictureFrames ==
    {PictureFrame(3, 1, 2, <<170>>), PictureFrame(4, 2, 2, <<187>>),
     PictureFrame(5, 1, 1, <<204>>), PictureFrame(6, 3, 3, <<221>>)}

\* picture frame cut before the end of the device id
frPictureShort == <<64, 82, 0, 0, 0, 0, 0, 2, 0, 0>>

\* picture frame with an empty data frame
frPictureNoData == <<64, 82, 0, 0, 0, 0, 0, 2, 0, 0, 0, 0, 0, 0, 0, 9>>

\* $FORM=0,@P,0,"%MV%BV"
frFormMVBV == <<36, 70, 79, 82, 77, 61, 48, 44, 64, 80, 44, 48, 44,
                34, 37, 77, 86, 37, 66, 86, 34, 13, 10>>

\* $FORM=0,@P,0,"%BV"
frFormBV == <<36, 70, 79, 82, 77, 61, 48, 44, 64, 80, 44, 48, 44, 34, 37, 66, 86, 34, 13, 10>>

\* $FORM=0,@P,0,""
frFormEmpty == <<36, 70, 79, 82, 77, 61, 48, 44, 64, 80, 44, 48, 44, 34, 34, 13, 10>>

\* $FORM=0  (no format-string argument)
frFormAbsent == <<36, 70, 79, 82, 77, 61, 48, 13, 10>>

\* $1708="%ZO"
frJ1708ZO == <<36, 49, 55, 48, 56, 61, 34, 37, 90, 79, 34, 13, 10>>

\* $1708=  (empty format string)
frJ1708Empty == <<36, 49, 55, 48, 56, 61, 13, 10>>

\* $FMSC=1,"%JO"
frJ1939JO == <<36, 70, 77, 83, 67, 61, 49, 44, 34, 37, 74, 79, 34, 13, 10>>

\* $FMSC=0,""
frJ1939Empty == <<36, 70, 77, 83, 67, 61, 48, 44, 34, 34, 13, 10>>

\* $FMSC=0  (no format-string argument)
frJ1939Absent == <<36, 70, 77, 83, 67, 61, 48, 13, 10>>

\* OK
frOK == <<79, 75, 13, 10>>

FormatResponseFrames ==
    {frFormMVBV, frFormBV, frFormEmpty, frFormAbsent, frJ1708ZO, frJ1708Empty,
     frJ1939JO, frJ1939Empty, frJ1939Absent,
     frJ1708Empty \o frJ1939Empty, frJ1708ZO \o frJ1939JO}

\* the decimal text of an integer
IntText(i) == toStringRadix(Num(i), 10)

\* the slice text "a~b"
RangeText(a, b) == IntText(a) \o <<chTilde>> \o IntText(b)

\* bit positions tried as slice bounds: one below and one above every width
BitIndexes == (0 - 1)..MaxWidth

\* slice texts: every range and every single index over BitIndexes
SliceTexts ==
    {RangeText(a, b) : a \in BitIndexes, b \in BitIndexes} \cup {IntText(k) : k \in BitIndexes}

\* <<raw token, format name>> pairs a report position is drawn from: integers
\* with and without multiplier, a token that is not a number, a boolean, a
\* field of unknown kind, a name that is not in the catalog, a dictionary hit
\* and miss, and a bitfield
PositionPool ==
    { <<<<55>>, tokRTCTime>>, <<<<55>>, tokSpeed>>, <<<<120>>, tokSpeed>>,
      <<<<49>>, tokZO>>, <<<<55>>, tokJO>>, <<<<55>>, <<81, 81>>>>,
      <<<<49>>, tokGR>>, <<<<57>>, tokGR>>, <<<<53>>, tokST>> }

\* the lines of up to MaxFields positions
RECURSIVE PositionLists(_)
PositionLists(n) ==
    IF n = 0 THEN {<<>>}
    ELSE PositionLists(n - 1)
         \cup {Append(l, p) : l \in {x \in PositionLists(n - 1) : Len(x) = n - 1},
                              p \in PositionPool}

\* sub-fields a bitfield table is built from: single bits and ranges within
\* the byte, a nested bitfield, a reversed range, targets reaching outside
\* the byte, a dictionary, a multiplier and an unknown kind
SubFieldPool ==
    { << <<48>>,           FieldDef("b0",  "int",     0, <<>>, <<>>) >>,
      << <<49, 126, 50>>,  FieldDef("b12", "int",     0, <<>>, <<>>) >>,
      << <<51, 126, 53>>,  FieldDef("b35", "int",     0, <<>>, <<>>) >>,
      << <<55>>,           FieldDef("b7",  "boolean", 0, <<>>, <<>>) >>,
      << <<54, 126, 55>>,  FieldDef("n67", "U8",      0, <<>>, statusTables) >>,
      << <<53, 126, 51>>,  FieldDef("r53", "int",     0, <<>>, <<>>) >>,
      << <<56>>,           FieldDef("b8",  "int",     0, <<>>, <<>>) >>,
      << <<52, 126, 56>>,  FieldDef("b48", "int",     0, <<>>, <<>>) >>,
      << <<50>>,           FieldDef("g2",  "string",  0, gearDict, <<>>) >>,
      << <<48, 126, 49>>,  FieldDef("m01", "int",     3, <<>>, <<>>) >>,
      << <<54>>,           FieldDef("j6",  "J1939",   0, <<>>, <<>>) >> }

\* bitfield tables: no table, one sub-field, two different sub-fields in
\* either order, and the table "0", "1~2", "3~5" of the repository's test
BitfieldTables ==
    {<<>>}
    \cup {<<e>> : e \in SubFieldPool}
    \cup {<<p[1], p[2]>> : p \in {q \in SubFieldPool \X SubFieldPool : q[1] # q[2]}}
    \cup { << << <<48>>,          FieldDef("b0",  "int", 0, <<>>, <<>>) >>,
               << <<49, 126, 50>>, FieldDef("b12", "int", 0, <<>>, <<>>) >>,
               << <<51, 126, 53>>, FieldDef("b35", "int", 0, <<>>, <<>>) >> >> }

\* 4-character groups of a g-force text: "0000", "0001", "00a5", "7fff",
\* "8000", "FFFF", and the groups "zz12", "12zz", "-123" that are not hex
GForceGroups ==
    { <<48, 48, 48, 48>>, <<48, 48, 48, 49>>, <<48, 48, 97, 53>>,
      <<55, 102, 102, 102>>, <<56, 48, 48, 48>>, <<70, 70, 70, 70>>,
      <<122, 122, 49, 50>>, <<49, 50, 122, 122>>, <<45, 49, 50, 51>> }

\* lengths a g-force text is cut to: empty, two groups, one character short,
\* exactly three groups, and two characters more
GForceLengths == {0, 8, 11, 12, 14}

\* tire groups of a tpms text: "D0DC9911", "13E29AA0" and "A0AC9E84" of the
\* repository's tests, and "13E28009", whose pressure byte 9 times 0.3625
\* is not a decimal of four places in double arithmetic
TireGroups ==
    { <<68, 48, 68, 67, 57, 57, 49, 49>>, <<49, 51, 69, 50, 57, 65, 65, 48>>,
      <<65, 48, 65, 67, 57, 69, 56, 52>>, <<49, 51, 69, 50, 56, 48, 48, 57>> }

\* the texts of up to n tire groups
RECURSIVE TireTexts(_)
TireTexts(n) ==
    IF n = 0 THEN {<<>>}
    ELSE TireTexts(n - 1)
         \cup {t \o g : t \in {x \in TireTexts(n - 1) : Len(x) = 8 * (n - 1)},
                         g \in TireGroups}

\* tpms texts of 8 characters that hold line terminators: "1234\n678",
\* "\rA349911" and eight line feeds
BrokenTireTexts ==
    { <<49, 50, 51, 52, 10, 54, 55, 56>>, <<13, 65, 51, 52, 57, 57, 49, 49>>,
      <<10, 10, 10, 10, 10, 10, 10, 10>> }

\* coefficients of the tire equations: 0.3625 and 3 with 0 and -424 of the
\* repository's test, 0.5 with -60, and a coefficient that is not configured
PressureSlopes == {Dec(3625, 4), Dec(5, 1), Undefined}

PressureConsts == {Num(0), Num(0 - 60), Undefined}

TempSlopes == {Num(3), Undefined}

TempConsts == {Num(0 - 424), Undefined}

\* frames of a connection that identifies itself and is acknowledged
AckFrames ==
    KeepAliveFrames
    \cup {frShortKeepAlive, frReport75, frReport06, frReportNaN, frReportBigSeq,
          frReportBinary,
          PictureFrame(3, 1, 2, <<170>>), frPictureShort, frOK}

\* frames of a connection that negotiates its report format
FormatFrames ==
    FormatResponseFrames
    \cup {frReport75, frReportLong, frReportNone, frReportBinary, frOK}

\* frames of a connection followed through its timers: an identifier 1, an
\* identifier 0 and a picture frame cut short
LifeFrames ==
    {KeepAliveFrame(<<0, 0, 1>>, <<0, 1>>), KeepAliveFrame(<<0, 0, 0>>, <<0, 1>>),
     frPictureShort}

\* instants after connect at which frames arrive between two timers
ArrivalInstants == {1, 59950}

\* frames of a connection that transfers pictures
TransferFrames ==
    PictureFrames
    \cup {frPictureShort, frPictureNoData, KeepAliveFrame(<<0, 0, 1>>, <<0, 1>>)}

\* picture packets of a connection whose writes are slow: 1 of 2, 2 of 2
\* and a stray 3 of 3
PendingFrames ==
    {PictureFrame(3, 1, 2, <<170>>), PictureFrame(4, 2, 2, <<187>>),
     PictureFrame(6, 3, 3, <<221>>)}

\* console lines: "1|AT", "2|AT", "3|AT", " 2|AT$FORM=?\n", "1", "1|AT"
\* between a byte order mark and a no-break space, and "1|A" followed by
\* U+0154, whose low byte is that of "T"
ConsoleLines ==
    {<<49, 124, 65, 84>>, <<50, 124, 65, 84>>, <<51, 124, 65, 84>>,
     <<32, 50, 124, 65, 84, 36, 70, 79, 82, 77, 61, 63, 10>>, <<49>>,
     <<65279, 49, 124, 65, 84, 160>>, <<49, 124, 65, 340>>}

\* property keys of the registry: the device identifiers 1 and 2
RegistryKeys == {<<49>>, <<50>>}

\* ------------------------------------------------------------------------
\* State
\* ------------------------------------------------------------------------
VARIABLES
    deviceID, seqNum, reportType,
    isReportCustom, isReportJ1708, isReportJ1939,
    reportFormatType, reportJ1XXXFormat, reportCustomFormat, reportFinalFormat,
    picture, lastAlive,
    getReportFormatInterval,  \* the periodic GetReportFormat timer is armed
    graceTimeout,             \* the one-shot 5 s GetReportFormat timer is pending
    PICTURE_SAVE_TARGET,      \* process.env.PICTURE_SAVE_TARGET
    now,                      \* Date.now()
    socketOut, dbOut, pictureOut, raised, handler,  \* effects of the last step
    exited,                   \* the process has terminated
    lastOp, lastFrame,        \* the last step and the frame it was given
    applied,                  \* data frames applied to the latest transfer
    assembled,                \* content and isDone() of that transfer after the last packet
    formatSource,             \* format-string argument each flag was decided from
    premature,                \* an ASCII report arrived before the format resolved
    call,                     \* the last decoder function applied on its own: input and result
    keepAliveCheck,           \* the periodic CheckTimeout timer is armed
    keepAliveDue, formatDue,  \* when the two periodic timers fire next
    endLog,                   \* the socket.end() calls so far: who called, and when
    peerEnded,                \* the socket has emitted 'end'
    promises,                 \* the promises GetDeviceID has returned, with their timers
    registered,               \* main.js has stored the connection under its client id
    lastRecv,                 \* when the last frame was received (connect time before any)
    knownAt,                  \* when the device identifier was first set to a number (-1: never)
    truthyAt,                 \* since when the device identifier is truthy (-1: it is not)
    pendingWrite              \* the sink writes started and not yet completed, in the order started

objVars == <<deviceID, seqNum, reportType, isReportCustom, isReportJ1708, isReportJ1939,
             reportFormatType, reportJ1XXXFormat, reportCustomFormat, reportFinalFormat,
             picture, lastAlive, getReportFormatInterval>>

outVars == <<socketOut, dbOut, pictureOut, raised, handler, exited>>

histVars == <<lastOp, lastFrame, applied, assembled, formatSource, premature>>

timerVars == <<keepAliveCheck, keepAliveDue, endLog, peerEnded, promises, registered>>

lifeVars == <<timerVars, formatDue, lastRecv, knownAt, truthyAt>>

vars == <<objVars, outVars, histVars, graceTimeout, PICTURE_SAVE_TARGET, pendingWrite, now, call, lifeVars>>

\* the object's fields as a record, with nothing written yet in this step
This ==
    [deviceID |-> deviceID, seqNum |-> seqNum, reportType |-> reportType,
     isReportCustom |-> isReportCustom, isReportJ1708 |-> isReportJ1708,
     isReportJ1939 |-> isReportJ1939, reportFormatType |-> reportFormatType,
     reportJ1XXXFormat |-> reportJ1XXXFormat, reportCustomFormat |-> reportCustomFormat,
     reportFinalFormat |-> reportFinalFormat, picture |-> picture,
     lastAlive |-> lastAlive, getReportFormatInterval |-> getReportFormatInterval,
     socketOut |-> <<>>, dbOut |-> <<>>, pictureOut |-> <<>>,
     raised |-> FALSE, handler |-> "none", exited |-> FALSE]

\* the fields and the effects after a step
Becomes(r) ==
    /\ deviceID' = r.deviceID
    /\ seqNum' = r.seqNum
    /\ reportType' = r.reportType
    /\ isReportCustom' = r.isReportCustom
    /\ isReportJ1708' = r.isReportJ1708
    /\ isReportJ1939' = r.isReportJ1939
    /\ reportFormatType' = r.reportFormatType
    /\ reportJ1XXXFormat' = r.reportJ1XXXFormat
    /\ reportCustomFormat' = r.reportCustomFormat
    /\ reportFinalFormat' = r.reportFinalFormat
    /\ picture' = r.picture
    /\ lastAlive' = r.lastAlive
    /\ getReportFormatInterval' = r.getReportFormatInterval
    /\ socketOut' = r.socketOut
    /\ dbOut' = r.dbOut
    /\ pictureOut' = r.pictureOut
    /\ raised' = r.raised
    /\ handler' = r.handler
    /\ exited' = r.exited

\* ClientSocket constructor
Init ==
    /\ deviceID = Undefined
    /\ seqNum = Undefined
    /\ reportType = "undefined"
    /\ isReportCustom = "undefined"
    /\ isReportJ1708 = "undefined"
    /\ isReportJ1939 = "undefined"
    /\ reportFormatType = "undefined"
    /\ reportJ1XXXFormat = None
    /\ reportCustomFormat = None
    /\ reportFinalFormat = None
    /\ picture = NoPicture
    /\ now = 0
    /\ lastAlive = 0
    /\ getReportFormatInterval = TRUE
    /\ graceTimeout = TRUE
    /\ PICTURE_SAVE_TARGET \in {"folder", "database"}
    /\ socketOut = <<>>
    /\ dbOut = <<>>
    /\ pictureOut = <<>>
    /\ raised = FALSE
    /\ handler = "none"
    /\ exited = FALSE
    /\ lastOp = "constructor"
    /\ lastFrame = <<>>
    /\ applied = <<>>
    /\ assembled = [content |-> <<>>, done |-> FALSE]
    /\ formatSource = [custom |-> None, j1708 |-> None, j1939 |-> None]
    /\ premature = FALSE
    /\ call = [fn |-> "none", args |-> <<>>, result |-> <<>>]
    /\ keepAliveCheck = TRUE
    /\ keepAliveDue = SOCKET_TIMEOUT
    /\ formatDue = GET_REPORT_FORMAT_INTERVAL
    /\ endLog = <<>>
    /\ peerEnded = FALSE
    /\ promises = <<GetDeviceID(Undefined, 0, TRUE)>>
    /\ registered = FALSE
    /\ lastRecv = 0
    /\ knownAt = 0 - 1
    /\ truthyAt = 0 - 1
    /\ pendingWrite = <<>>

\* ------------------------------------------------------------------------
\* History kept for the properties
\* ------------------------------------------------------------------------
IsPictureFrame(buffer) == subarray(buffer, 0, 2) = <<64, 82>>

\* the data frames applied to the transfer the last picture packet went to,
\* and that transfer's content and isDone() right after the packet
PictureHistory(buffer, r) ==
    LET dataFrame == subarrayFrom(buffer, 16)
    IN  IF r.handler # "picture" \/ r.raised
        THEN UNCHANGED <<applied, assembled>>
        ELSE IF ~picture.def
        THEN /\ applied' = <<dataFrame>>
             /\ assembled' = [content |-> r.picture.pictureContent,
                              done |-> isDone(r.picture)]
        ELSE LET a == AddPicturePackage(picture, dataFrame)[1]
             IN  /\ applied' = Append(applied, dataFrame)
                 /\ assembled' = [content |-> a.pictureContent, done |-> isDone(a)]

\* the writes a step hands to a sink stay pending until the sink is done
\* with them (fs.mkdir / putObject complete on a later turn of the event
\* loop); each is kept with the data frames of the transfer it came from
StartedWrites(out, dataFrames) ==
    [i \in 1..Len(out) |->
        [sink |-> out[i].sink, key |-> out[i].key, content |-> out[i].content,
         packets |-> dataFrames]]

\* the lines of an 'other' frame that answer the command cmd
ResponseLines(buffer, cmd) ==
    SelectSeq(split(toAscii(buffer), chCRLF),
              LAMBDA line : Len(line) > Len(cmd)
                            /\ SubSeq(line, 1, Len(cmd) + 1) = cmd \o <<chEq>>)

\* the format-string argument (0-based position pos) of the first response to
\* cmd in the frame; None when the response has no such argument
FormatArgument(buffer, cmd, pos) ==
    LET lines == ResponseLines(buffer, cmd)
        args  == split(split(lines[1], <<chEq>>)[2], <<chComma>>)
    IN  IF lines = <<>> \/ Len(args) <= pos THEN None ELSE Some(args[pos + 1])

FormatHistory(buffer, r) ==
    formatSource' =
        [custom |-> IF isReportCustom = "undefined" /\ r.isReportCustom # "undefined"
                    THEN FormatArgument(buffer, cmdForm, 3) ELSE formatSource.custom,
         j1708  |-> IF isReportJ1708 = "undefined" /\ r.isReportJ1708 # "undefined"
                    THEN FormatArgument(buffer, cmdJ1708, 0) ELSE formatSource.j1708,
         j1939  |-> IF isReportJ1939 = "undefined" /\ r.isReportJ1939 # "undefined"
                    THEN FormatArgument(buffer, cmdJ1939, 1) ELSE formatSource.j1939]

\* ------------------------------------------------------------------------
\* Actions
\* ------------------------------------------------------------------------
\* the outcome r of a callback as the process is left by it: an exception
\* that leaves the 'data' listener is uncaught, and socket.write on a socket
\* that socket.end() was called on sends nothing and emits 'error', which
\* has no listener; either way the process terminates
Delivered(r, ended) ==
    IF r.raised THEN [r EXCEPT !.exited = TRUE]
    ELSE IF ended /\ r.socketOut # <<>>
    THEN [r EXCEPT !.socketOut = <<>>, !.exited = TRUE]
    ELSE r

\* socket.on("data"): one inbound frame is handed to RecievedData
SocketData(buffer) ==
    /\ ~exited
    /\ ~peerEnded
    /\ IsPictureFrame(buffer) /\ picture.def => Len(applied) < MaxPackets
    /\ \E r \in {Delivered(RecievedData(This, buffer, PICTURE_SAVE_TARGET, now),
                          endLog # <<>>)} :
           /\ Becomes(r)
           /\ PictureHistory(buffer, r)
           /\ FormatHistory(buffer, r)
           /\ premature' = (premature \/ (r.handler = "report" /\ r.reportType = "ascii"
                                          /\ ~AllFormatsReceived(r)))
           /\ knownAt' = IF knownAt < 0 /\ r.deviceID.k \in {"number", "bigint"}
                         THEN now ELSE knownAt
           /\ truthyAt' = IF ~Truthy(r.deviceID) THEN 0 - 1
                          ELSE IF truthyAt < 0 THEN now ELSE truthyAt
           /\ pendingWrite' = pendingWrite \o StartedWrites(r.pictureOut, applied')
           /\ Len(pendingWrite') <= MaxPending
    /\ lastOp' = "RecievedData"
    /\ lastFrame' = buffer
    /\ lastRecv' = now
    /\ UNCHANGED <<graceTimeout, PICTURE_SAVE_TARGET, now, call, timerVars, formatDue>>

\* one of the pending writes completes, whichever its sink is done with
\* first (each write has its own stream or its own putObject call): the
\* callback of ws.end / the resolution of putObject only logs
WriteCompletes ==
    /\ ~exited
    /\ pendingWrite # <<>>
    /\ \E i \in 1..Len(pendingWrite) :
          pendingWrite' = SubSeq(pendingWrite, 1, i - 1)
                          \o SubSeq(pendingWrite, i + 1, Len(pendingWrite))
    /\ lastOp' = "WriteCompletes"
    /\ UNCHANGED <<objVars, outVars, lastFrame, applied, assembled, formatSource, premature,
                   graceTimeout, PICTURE_SAVE_TARGET, now, call, lifeVars>>

\* setTimeout(() => this.GetReportFormat(), 5000) fires
GetReportFormatTimeout ==
    /\ ~exited
    /\ graceTimeout
    /\ graceTimeout' = FALSE
    /\ Becomes(Delivered(GetReportFormat(This), endLog # <<>>))
    /\ lastOp' = "GetReportFormat"
    /\ lastFrame' = <<>>
    /\ UNCHANGED <<applied, assembled, formatSource, premature, PICTURE_SAVE_TARGET, pendingWrite, now, call,
                   lifeVars>>

\* setInterval(() => this.GetReportFormat(), GET_REPORT_FORMAT_INTERVAL) fires
GetReportFormatInterval ==
    /\ ~exited
    /\ getReportFormatInterval
    /\ Becomes(Delivered(GetReportFormat(This), endLog # <<>>))
    /\ lastOp' = "GetReportFormat"
    /\ lastFrame' = <<>>
    /\ formatDue' = now + GET_REPORT_FORMAT_INTERVAL
    /\ UNCHANGED <<applied, assembled, formatSource, premature, graceTimeout,
                   PICTURE_SAVE_TARGET, pendingWrite, now, call, timerVars, lastRecv, knownAt, truthyAt>>

\* what a responsive device sends back for the commands it was sent: for
\* each format query the well-formed response chosen for it, in one frame
RECURSIVE DeviceResponse(_, _, _, _)
DeviceResponse(commands, form, j1708, j1939) ==
    IF commands = <<>> THEN <<>>
    ELSE (IF commands[1] = strAT \o cmdForm \o strQuery \o chCRLF THEN form
          ELSE IF commands[1] = strAT \o cmdJ1708 \o strQuery \o chCRLF THEN j1708
          ELSE IF commands[1] = strAT \o cmdJ1939 \o strQuery \o chCRLF THEN j1939
          ELSE <<>>)
         \o DeviceResponse(Tail(commands), form, j1708, j1939)

\* queries have just been written to an open connection
AnswerDue == lastOp = "GetReportFormat" /\ socketOut # <<>> /\ ~peerEnded

\* socket.on("data") with the device's answer to the queries GetReportFormat
\* has just written
DeviceAnswers ==
    /\ AnswerDue
    /\ \E form \in {frFormMVBV, frFormEmpty}, j1708 \in {frJ1708ZO, frJ1708Empty},
          j1939 \in {frJ1939JO, frJ1939Empty} :
          SocketData(DeviceResponse(socketOut, form, j1708, j1939))

\* setInterval(() => this.CheckTimeout(), SOCKET_TIMEOUT) fires
KeepAliveCheckFires ==
    /\ ~exited
    /\ keepAliveCheck
    /\ TimerRuns(keepAliveDue, now)
    /\ endLog' = IF CheckTimeout(now, lastAlive)
                 THEN Append(endLog, [by |-> "CheckTimeout", at |-> now])
                 ELSE endLog
    /\ keepAliveDue' = now + SOCKET_TIMEOUT
    /\ Becomes(This)
    /\ lastOp' = "CheckTimeout"
    /\ lastFrame' = <<>>
    /\ UNCHANGED <<applied, assembled, formatSource, premature, graceTimeout,
                   PICTURE_SAVE_TARGET, pendingWrite, now, call, keepAliveCheck, peerEnded, promises,
                   registered, formatDue, lastRecv, knownAt, truthyAt>>

\* socket.on("end"): ClearSocket, then GetDeviceID is called for the
\* `in connectedSocket` test and for the log line (the test is made on the
\* promise itself, which is never a key, so the delete is not reached)
SocketEnd ==
    /\ ~exited
    /\ ~peerEnded
    /\ peerEnded' = TRUE
    /\ \E cleared \in {ClearSocket([keepAliveCheck |-> keepAliveCheck,
                                     getReportFormatInterval |-> getReportFormatInterval])} :
          /\ keepAliveCheck' = cleared.keepAliveCheck
          /\ Becomes([This EXCEPT !.getReportFormatInterval = cleared.getReportFormatInterval])
    /\ promises' = promises \o <<GetDeviceID(deviceID, now, FALSE),
                                  GetDeviceID(deviceID, now, FALSE)>>
    /\ lastOp' = "end"
    /\ lastFrame' = <<>>
    /\ UNCHANGED <<applied, assembled, formatSource, premature, graceTimeout,
                   PICTURE_SAVE_TARGET, pendingWrite, now, call, keepAliveDue, endLog, registered,
                   formatDue, lastRecv, knownAt, truthyAt>>

\* the checkDeviceID interval of the i-th promise fires
CheckDeviceIDFires(i) ==
    /\ ~exited
    /\ PollRuns(promises[i], now)
    /\ \E p \in {CheckDeviceID(promises[i], deviceID, now)} :
          /\ promises' = [promises EXCEPT ![i] = p]
          /\ \E conn \in {Continuation(promises[i], p, now,
                                        [registered |-> registered, endLog |-> endLog])} :
                registered' = conn.registered /\ endLog' = conn.endLog
    /\ Becomes(This)
    /\ lastOp' = "checkDeviceID"
    /\ lastFrame' = <<>>
    /\ UNCHANGED <<applied, assembled, formatSource, premature, graceTimeout,
                   PICTURE_SAVE_TARGET, pendingWrite, now, call, keepAliveCheck, keepAliveDue, peerEnded,
                   formatDue, lastRecv, knownAt, truthyAt>>

\* the 60 s timer of the i-th promise fires
DeviceIDTimeoutFires(i) ==
    /\ ~exited
    /\ promises[i].timeout
    /\ TimerRuns(promises[i].callTime + DeviceIDTimeout, now)
    /\ \E p \in {DeviceIDTimedOut(promises[i], now)} :
          /\ promises' = [promises EXCEPT ![i] = p]
          /\ \E conn \in {Continuation(promises[i], p, now,
                                        [registered |-> registered, endLog |-> endLog])} :
                registered' = conn.registered /\ endLog' = conn.endLog
    /\ Becomes(This)
    /\ lastOp' = "deviceIDTimeout"
    /\ lastFrame' = <<>>
    /\ UNCHANGED <<applied, assembled, formatSource, premature, graceTimeout,
                   PICTURE_SAVE_TARGET, pendingWrite, now, call, keepAliveCheck, keepAliveDue, peerEnded,
                   formatDue, lastRecv, knownAt, truthyAt>>

\* the promises whose checkDeviceID interval is armed while the identifier
\* is truthy: the next run of the interval resolves them
Resolving == {i \in 1..Len(promises) : promises[i].poll /\ Truthy(deviceID)}

\* the instants at which the armed timers are due, for a checkDeviceID
\* interval that will find the identifier the latest instant at which it
\* can be due: a callback runs up to MaxEarly before its due instant, at
\* it, or up to MaxDrift after it (a checkDeviceID run that finds no
\* identifier changes nothing and is passed over)
Due ==
    (IF graceTimeout THEN {GraceDelay} ELSE {})
    \cup (IF getReportFormatInterval THEN {formatDue} ELSE {})
    \cup (IF keepAliveCheck THEN {keepAliveDue} ELSE {})
    \cup {promises[i].callTime + DeviceIDTimeout :
             i \in {j \in 1..Len(promises) : promises[j].timeout}}
    \cup {PollLatest(promises[i], truthyAt) : i \in Resolving}

\* the instants time is followed to: a due instant, the earliest and the
\* latest instant the callback due then may run at, the earliest instant at
\* which a checkDeviceID interval that cannot run yet finds the identifier,
\* or an arrival instant
Horizon ==
    {MaxTime} \cup Due \cup {h - MaxEarly : h \in Due} \cup {h + MaxDrift : h \in Due}
    \cup {PollSoonest(promises[i], now) :
             i \in {j \in Resolving : ~PollRuns(promises[j], now)}}

\* time passes until t: no callback is later than MaxDrift
Elapse(t) ==
    /\ ~exited
    /\ t > now
    /\ t <= MaxTime
    /\ \A h \in Due : t <= h + MaxDrift
    /\ now' = t
    /\ Becomes(This)
    /\ lastOp' = "Elapse"
    /\ lastFrame' = <<>>
    /\ UNCHANGED <<applied, assembled, formatSource, premature, graceTimeout,
                   PICTURE_SAVE_TARGET, pendingWrite, call, lifeVars>>

\* Utilities.GetIntSliceFromBinary applied to the integer v, the width n and
\* the slice text (a pure function: one application per behaviour)
CallGetIntSliceFromBinary(v, n, slice) ==
    /\ call.fn = "none"
    /\ call' = [fn |-> "GetIntSliceFromBinary", args |-> <<v, n, slice>>,
                result |-> GetIntSliceFromBinary(Num(v), n, slice, FALSE)]
    /\ UNCHANGED <<objVars, outVars, histVars, graceTimeout, PICTURE_SAVE_TARGET, pendingWrite, now, lifeVars>>

\* Pattern.ExtractValue applied to a line of <<raw token, format name>>
\* positions; with `shorter` the format has one name less than the line
CallExtractValue(positions, shorter, offset) ==
    /\ call.fn = "none"
    /\ \E input \in {[i \in 1..Len(positions) |-> positions[i][1]]},
          pattern \in {[i \in 1..(IF shorter /\ positions # <<>>
                                   THEN Len(positions) - 1 ELSE Len(positions))
                           |-> positions[i][2]]} :
          call' = [fn |-> "ExtractValue", args |-> <<input, pattern, offset>>,
                   result |-> ExtractValue(input, pattern, offset)]
    /\ UNCHANGED <<objVars, outVars, histVars, graceTimeout, PICTURE_SAVE_TARGET, pendingWrite, now, lifeVars>>

\* Pattern.GetValueU8 applied to the decimal text of v and a bitfield table
CallGetValueU8(v, tables) ==
    /\ call.fn = "none"
    /\ call' = [fn |-> "GetValueU8", args |-> <<v, tables>>,
                result |-> GetValueU8(Str(IntText(v)),
                                      FieldDef("u8", "U8", 0, <<>>, tables))]
    /\ UNCHANGED <<objVars, outVars, histVars, graceTimeout, PICTURE_SAVE_TARGET, pendingWrite, now, lifeVars>>

\* Pattern.GetValue applied to the decimal text of v and a float field of
\* the given number of decimals, no multiplier configured
CallGetValueFloat(v, decimals) ==
    /\ call.fn = "none"
    /\ call' = [fn |-> "GetValueFloat", args |-> <<v, decimals>>,
                result |-> GetValue(Str(IntText(v)), FloatDef("f", 0, decimals))]
    /\ UNCHANGED <<objVars, outVars, histVars, graceTimeout, PICTURE_SAVE_TARGET, pendingWrite, now, lifeVars>>

\* Pattern.GetValue applied to a g-force field and the first len characters
\* of the groups x, y, z followed by "9a"
CallGetValueGForce(x, y, z, len) ==
    /\ call.fn = "none"
    /\ \E rawValue \in {subarray(x \o y \o z \o <<57, 97>>, 0, len)} :
          call' = [fn |-> "GetValueGForce", args |-> <<rawValue>>,
                   result |-> GetValue(Str(rawValue), FieldDef("gf", "g_force", 0, <<>>, <<>>))]
    /\ UNCHANGED <<objVars, outVars, histVars, graceTimeout, PICTURE_SAVE_TARGET, pendingWrite, now, lifeVars>>

\* a console line is read while `count` connections are open and the
\* connections of `keys` are stored in the registry under their identifiers
CallStartConsoleInput(data, count, keys) ==
    /\ call.fn = "none"
    /\ \E connectedSocket \in {[k \in keys |-> k]} :
          call' = [fn |-> "StartConsoleInput", args |-> <<data, count, connectedSocket>>,
                   result |-> StartConsoleInput(data, count, connectedSocket)]
    /\ UNCHANGED <<objVars, outVars, histVars, graceTimeout, PICTURE_SAVE_TARGET, pendingWrite,
                   now, lifeVars>>

\* Pattern.GetValue applied to a tpms field and a text of tire groups with
\* its last `cut` characters taken off
CallGetValueTPMS(text, cut, patternInfo) ==
    /\ call.fn = "none"
    /\ \E rawValue \in {subarray(text, 0, Max(Len(text) - cut, 0))} :
          call' = [fn |-> "GetValueTPMS", args |-> <<rawValue, patternInfo>>,
                   result |-> GetValue(Str(rawValue), patternInfo)]
    /\ UNCHANGED <<objVars, outVars, histVars, graceTimeout, PICTURE_SAVE_TARGET, pendingWrite, now, lifeVars>>

\* a connection fed keep-alive, report, picture and other frames
NextAck == \E buffer \in AckFrames : SocketData(buffer)

SpecAck == Init /\ [][NextAck]_vars

\* a connection negotiating its report format while reports arrive
NextFormat ==
    \/ \E buffer \in FormatFrames : SocketData(buffer)
    \/ GetReportFormatTimeout
    \/ GetReportFormatInterval

SpecFormat == Init /\ [][NextFormat]_vars

\* a connection receiving picture transfers, each write completing before
\* the next frame arrives
NextTransfer ==
    \/ pendingWrite = <<>> /\ \E buffer \in TransferFrames : SocketData(buffer)
    \/ WriteCompletes

SpecTransfer == Init /\ [][NextTransfer]_vars

\* a connection receiving picture packets while earlier writes are pending
NextPending ==
    \/ \E buffer \in PendingFrames : SocketData(buffer)
    \/ WriteCompletes

SpecPending == Init /\ [][NextPending]_vars

\* a connection followed through its timers, from connect to the peer's close;
\* of the checkDeviceID intervals the runs that find the identifier are
\* followed (a run that finds none changes no field of the connection and
\* leaves the interval armed: PollRuns counts such runs from the instant the
\* interval was armed)
NextLife ==
    \/ now \in {0} \cup ArrivalInstants /\ \E buffer \in LifeFrames : SocketData(buffer)
    \/ TimerRuns(GraceDelay, now) /\ GetReportFormatTimeout
    \/ TimerRuns(formatDue, now) /\ GetReportFormatInterval
    \/ KeepAliveCheckFires
    \/ SocketEnd
    \/ \E i \in Resolving : CheckDeviceIDFires(i)
    \/ \E i \in 1..Len(promises) : DeviceIDTimeoutFires(i)
    \/ \E t \in Horizon \cup ArrivalInstants : Elapse(t)

SpecLife == Init /\ [][NextLife]_vars

\* the decoder functions applied on their own
NextDecode ==
    \/ /\ call.fn = "none"
       /\ \E n \in 1..MaxWidth, v \in 0..(Pow(2, MaxWidth) + 3), slice \in SliceTexts :
             CallGetIntSliceFromBinary(v, n, slice)
    \/ /\ call.fn = "none"
       /\ \E positions \in PositionLists(MaxFields), shorter \in BOOLEAN,
             offset \in 0..MaxFields :
             CallExtractValue(positions, shorter, offset)
    \/ /\ call.fn = "none"
       /\ \E v \in (0 - MaxBelow)..MaxRaw, tables \in BitfieldTables :
             CallGetValueU8(v, tables)
    \/ /\ call.fn = "none"
       /\ \E v \in (0 - MaxBelow)..MaxRaw, decimals \in 0..MaxDecimals :
             CallGetValueFloat(v, decimals)
    \/ /\ call.fn = "none"
       /\ \E x \in GForceGroups, y \in GForceGroups, z \in GForceGroups,
             len \in GForceLengths :
             CallGetValueGForce(x, y, z, len)
    \/ /\ call.fn = "none"
       /\ \E text \in TireTexts(MaxTires) \cup BrokenTireTexts, cut \in {0, 5},
             ps \in PressureSlopes, pc \in PressureConsts,
             ts \in TempSlopes, tc \in TempConsts :
             CallGetValueTPMS(text, cut, TpmsDef("tpms", ps, pc, ts, tc))
    \/ /\ call.fn = "none"
       /\ \E data \in ConsoleLines, count \in 0..MaxConnections,
             keys \in SUBSET RegistryKeys :
             CallStartConsoleInput(data, count, keys)

\* a connection to a device that answers every format query, with and
\* without report frames arriving; the timers keep firing while armed and
\* the answer to a query is the next frame the device sends (weak fairness
\* of DeviceAnswers, written with its enabling condition AnswerDue)
NextNegotiate ==
    \/ GetReportFormatTimeout
    \/ GetReportFormatInterval
    \/ DeviceAnswers
    \/ ~AnswerDue /\ \E buffer \in {frReport75, frReportLong, frReportBinary} :
                         SocketData(buffer)

SpecNegotiate ==
    /\ Init
    /\ [][NextNegotiate]_vars
    /\ WF_vars(GetReportFormatTimeout)
    /\ WF_vars(GetReportFormatInterval)
    /\ ([]<>~AnswerDue \/ []<><<DeviceAnswers>>_vars)

SpecDecode == Init /\ [][NextDecode]_vars

TypeOK ==
    /\ reportType \in {"undefined", "ascii", "binary"}
    /\ {isReportCustom, isReportJ1708, isReportJ1939} \subseteq {"undefined", "true", "false"}
    /\ reportFormatType \in {"undefined", "custom", "j1708", "j1939", "base"}

\* ------------------------------------------------------------------------
\* Properties: identification and acknowledgment (SpecAck)
\* ------------------------------------------------------------------------
\* a value that has been set to a number (neither undefined nor NaN)
Known(x) == x.k \in {"number", "bigint"}

\* the big-endian integer a byte string denotes: byte i weighs 256^(n-i)
\* (a zero byte contributes nothing, whatever its weight)
RECURSIVE BigEndian(_)
BigEndian(bytes) ==
    IF bytes = <<>> THEN 0
    ELSE (IF bytes[1] = 0 THEN 0 ELSE bytes[1] * Pow(256, Len(bytes) - 1))
         + BigEndian(Tail(bytes))

\* C1: after RecievedData has handled a frame, exactly one acknowledgment has
\* been written to the socket when the device identifier and the sequence
\* number are both known (whatever their values, 0 included), and none when
\* either is still unset.
C1_OneAckIffKnown ==
    lastOp = "RecievedData" =>
        IF Known(deviceID) /\ Known(seqNum)
        THEN Len(socketOut) = 1
        ELSE Len(socketOut) = 0

\* C2: after a valid keep-alive frame the stored device identifier is the
\* big-endian integer of bytes 2..10, the stored sequence number the
\* big-endian integer of bytes 10..12, and an acknowledgment written for the
\* frame carries those same bytes after the FE 02 marker.
C2_KeepAliveExtractAndAck ==
    lastOp = "RecievedData" /\ handler = "keepalive" =>
        /\ Len(lastFrame) = 12
        /\ deviceID = BigInt(BigEndian(SubSeq(lastFrame, 3, 10)))
        /\ seqNum = Num(BigEndian(SubSeq(lastFrame, 11, 12)))
        /\ \A i \in 1..Len(socketOut) :
              socketOut[i] = <<254, 2>> \o SubSeq(lastFrame, 3, 12)

\* a keep-alive with device 258 and sequence 65535 was handled and acknowledged
C2_Witness ==
    /\ lastOp = "RecievedData"
    /\ handler = "keepalive"
    /\ lastFrame = KeepAliveFrame(<<0, 1, 2>>, <<255, 255>>)
    /\ Len(socketOut) = 1

\* C3 as stated: once the device identifier is set, no later frame changes it.
C3_DeviceIDNeverChanges ==
    [][deviceID # Undefined => deviceID' = deviceID]_vars

\* C3 amended: once the device identifier is set, no later report, picture or
\* other frame changes it; only a keep-alive frame replaces it.
C3_DeviceIDChangedOnlyByKeepAlive ==
    [][deviceID # Undefined /\ handler' # "keepalive" => deviceID' = deviceID]_vars

\* device 1 was learned from a keep-alive, then a report whose header names
\* device 5 was handled
C3_Witness ==
    /\ lastOp = "RecievedData"
    /\ handler = "report"
    /\ lastFrame = frReport75
    /\ deviceID = BigInt(1)

\* C17: no inbound frame is fatal: for every frame content and every
\* connection state RecievedData runs to completion without raising, updates
\* the liveness timestamp and performs the acknowledgment step (one
\* acknowledgment when the identifier and the sequence number are set and
\* non-zero, as SendACK tests them).
C17_NoFrameRaises ==
    lastOp = "RecievedData" =>
        /\ ~raised
        /\ lastAlive = now
        /\ Len(socketOut) = (IF Truthy(deviceID) /\ Truthy(seqNum) THEN 1 ELSE 0)

\* the handler the first two bytes of a frame call for
HandlerFor(frame) ==
    IF Len(frame) = 12 /\ frame[1] = 254 /\ frame[2] = 2 THEN "keepalive"
    ELSE IF Len(frame) >= 2 /\ frame[1] = 64 /\ frame[2] = 80 THEN "report"
    ELSE IF Len(frame) >= 2 /\ frame[1] = 64 /\ frame[2] = 82 THEN "picture"
    ELSE "other"

\* C26: every inbound frame is handled by exactly one handler chosen from
\* its first two bytes: FE 02 with length 12 is a keep-alive, 40 50 a report,
\* 40 52 a picture, and everything else, an FE 02 frame of another length
\* included, is handled as other.
C26_OneHandlerPerPrefix ==
    lastOp = "RecievedData" => handler = HandlerFor(lastFrame)

\* an FE 02 frame of 11 bytes was handled as other
C26_Witness ==
    /\ lastOp = "RecievedData"
    /\ lastFrame = frShortKeepAlive
    /\ handler = "other"
    /\ deviceID = Undefined

\* C27: the report type is decided by the first report frame of the
\* connection (ascii when its byte at offset 2 is a comma, binary otherwise)
\* and never changes afterwards, whatever later report frames carry there.
C27_ReportTypeDecidedOnce ==
    [][ /\ reportType # "undefined" => reportType' = reportType
        /\ (reportType = "undefined" /\ reportType' # "undefined") =>
              /\ handler' = "report"
              /\ reportType' = IF Len(lastFrame') >= 3 /\ lastFrame'[3] = chComma
                               THEN "ascii" ELSE "binary"
        /\ (reportType = "undefined" /\ handler' = "report") => reportType' # "undefined"
      ]_vars

\* a report frame without a comma at offset 2 was handled on a connection
\* whose type is ascii
C27_Witness ==
    /\ lastOp = "RecievedData"
    /\ handler = "report"
    /\ lastFrame = frReportBinary
    /\ reportType = "ascii"

\* the sequence numbers a frame carries at the documented places: bytes 10..12
\* of a keep-alive, bytes 6..8 of a picture packet, the third header field of
\* an ASCII report
CarriedSeqNums(frame) ==
    { parseIntHexOfBytes(subarray(frame, 10, 12)),
      parseIntHexOfBytes(subarray(frame, 6, 8)),
      GetHeaderValueAscii(frame,
          GetHeaderValueAscii(frame,
              GetHeaderValueAscii(frame, 3, "String")[2], "String")[2], "Int")[1] }

\* C29: the sequence number is updated on every received frame: after a frame
\* of any class was handled to completion the stored sequence number is one
\* the frame itself carries.
C29_SeqNumIsThisFrames ==
    lastOp = "RecievedData" /\ ~raised => seqNum \in CarriedSeqNums(lastFrame)

\* C30: every acknowledgment written to the socket is exactly 12 bytes: the
\* marker FE 02, the device identifier as 8 big-endian bytes and the sequence
\* number as 2 big-endian bytes, for every identifier and sequence number the
\* connection holds, one taken from an ASCII report header included.
C30_AckIsTwelveBytes ==
    lastOp = "RecievedData" =>
        \A i \in 1..Len(socketOut) :
            /\ Len(socketOut[i]) = 12
            /\ SubSeq(socketOut[i], 1, 2) = <<254, 2>>
            /\ BigEndian(SubSeq(socketOut[i], 3, 10)) = deviceID.v
            /\ BigEndian(SubSeq(socketOut[i], 11, 12)) = seqNum.v

\* ------------------------------------------------------------------------
\* Properties: report-format negotiation (SpecFormat)
\* ------------------------------------------------------------------------
\* the three customization flags have all left unknown
AllResolved == "undefined" \notin {isReportCustom, isReportJ1708, isReportJ1939}

\* every comma- or CRLF-delimited field of a frame
FieldsOf(buffer) ==
    LET lines == split(toAscii(buffer), chCRLF)
    IN  UNION {{split(lines[i], <<chComma>>)[j] :
                    j \in 1..Len(split(lines[i], <<chComma>>))} : i \in 1..Len(lines)}

\* C4: nothing is written to the time-series sink while a customization flag
\* is unknown; what a step writes comes from the lines of the report frame it
\* was given (one write per line at most), so a report dropped before
\* resolution is not written by a later step.
C4_NoWriteBeforeResolution ==
    /\ ~AllResolved => dbOut = <<>>
    /\ dbOut # <<>> =>
          /\ lastOp = "RecievedData" /\ handler = "report"
          /\ Len(dbOut) <= Len(split(toAscii(lastFrame), chCRLF))
          /\ \A i \in 1..Len(dbOut) :
                \E f \in FieldsOf(lastFrame) : dbOut[i].timestamp = f \o strNineZeros

\* a report was dropped before resolution, and a one-line report handled
\* after resolution produced exactly its own write
C4_Witness ==
    /\ premature
    /\ AllResolved
    /\ lastOp = "RecievedData" /\ handler = "report"
    /\ lastFrame = frReport75
    /\ Len(dbOut) = 1

\* the text of a non-empty quoted string, without its enclosing quotes
IsQuotedNonEmpty(raw) ==
    Len(raw) >= 3 /\ raw[1] = chDQuote /\ raw[Len(raw)] = chDQuote

Unquoted(raw) == SubSeq(raw, 2, Len(raw) - 1)

\* the tokens of a format string: the text following each '%', up to the
\* next '%' or the end
TokensOf(str) ==
    LET P      == {i \in 1..Len(str) : str[i] = chPercent}
        pos(k) == CHOOSE i \in P : Cardinality({j \in P : j < i}) = k - 1
        n      == Cardinality(P)
    IN  [k \in 1..n |->
            SubSeq(str, pos(k) + 1, IF k = n THEN Len(str) ELSE pos(k + 1) - 1)]

\* C5: when all three flags are resolved and exactly one customization is
\* present, decided from a non-empty quoted format string, the format type
\* is that customization and the effective field sequence is the base fields
\* followed by the tokens of that string in order; when all three are absent
\* the type is base and the sequence is exactly the base fields.
C5_TypeAndEffectiveFields ==
    AllResolved =>
        /\ ( /\ isReportCustom = "true" /\ isReportJ1708 = "false" /\ isReportJ1939 = "false"
             /\ formatSource.custom.def /\ IsQuotedNonEmpty(formatSource.custom.v) )
           => /\ reportFormatType = "custom"
              /\ reportFinalFormat =
                    Some(reportBaseFormat \o TokensOf(Unquoted(formatSource.custom.v)))
        /\ ( /\ isReportCustom = "false" /\ isReportJ1708 = "true" /\ isReportJ1939 = "false"
             /\ formatSource.j1708.def /\ IsQuotedNonEmpty(formatSource.j1708.v) )
           => /\ reportFormatType = "j1708"
              /\ reportFinalFormat =
                    Some(reportBaseFormat \o TokensOf(Unquoted(formatSource.j1708.v)))
        /\ ( /\ isReportCustom = "false" /\ isReportJ1708 = "false" /\ isReportJ1939 = "true"
             /\ formatSource.j1939.def /\ IsQuotedNonEmpty(formatSource.j1939.v) )
           => /\ reportFormatType = "j1939"
              /\ reportFinalFormat =
                    Some(reportBaseFormat \o TokensOf(Unquoted(formatSource.j1939.v)))
        /\ (isReportCustom = "false" /\ isReportJ1708 = "false" /\ isReportJ1939 = "false")
           => /\ reportFormatType = "base"
              /\ reportFinalFormat = Some(reportBaseFormat)

\* resolved with only the custom format present, decided from "%MV%BV"
C5_Witness ==
    /\ AllResolved
    /\ isReportCustom = "true" /\ isReportJ1708 = "false" /\ isReportJ1939 = "false"
    /\ formatSource.custom = Some(<<34, 37, 77, 86, 37, 66, 86, 34>>)
    /\ Len(reportFinalFormat.v) = 19

\* C6: a flag that has left unknown is never assigned again, and the token
\* list recorded for it is not changed by a later response to the same
\* command (the J1708/J1939 list changes only in a step that decides the
\* other of the two flags).
C6_FlagsAssignedOnce ==
    [][ /\ isReportCustom # "undefined" =>
              /\ isReportCustom' = isReportCustom
              /\ reportCustomFormat' = reportCustomFormat
        /\ isReportJ1708 # "undefined" =>
              /\ isReportJ1708' = isReportJ1708
              /\ isReportJ1939' = isReportJ1939 => reportJ1XXXFormat' = reportJ1XXXFormat
        /\ isReportJ1939 # "undefined" =>
              /\ isReportJ1939' = isReportJ1939
              /\ isReportJ1708' = isReportJ1708 => reportJ1XXXFormat' = reportJ1XXXFormat
      ]_vars

\* a second $FORM response, naming another format, was handled after the
\* custom format had been recorded from "%MV%BV"
C6_Witness ==
    /\ lastOp = "RecievedData" /\ handler = "other"
    /\ reportType = "ascii"
    /\ lastFrame = frFormBV
    /\ isReportCustom = "true"
    /\ reportCustomFormat = Some(<<tokMV, tokBV>>)

\* C7: once all three flags are resolved the report format type and the
\* effective field sequence are set and no later step changes them.
C7_ResolvedFormatIsStable ==
    [][AllResolved =>
          /\ reportFinalFormat.def
          /\ reportFormatType' = reportFormatType
          /\ reportFinalFormat' = reportFinalFormat]_vars

\* the format had resolved to custom, and GetReportFormat ran afterwards
\* (it recomputes the format before it cancels the timer)
C7_Witness ==
    /\ AllResolved
    /\ reportFormatType = "custom"
    /\ lastOp = "GetReportFormat"
    /\ ~getReportFormatInterval
    /\ reportFinalFormat = Some(reportBaseFormat \o <<tokMV, tokBV>>)

\* C8: a format-query response whose format string is empty or absent
\* records the customization as absent: handling it does not raise and the
\* flag leaves unknown.
C8_EmptyOrAbsentRecordsAbsent ==
    ( /\ lastOp = "RecievedData" /\ handler = "other"
      /\ reportType = "ascii" )
    => /\ lastFrame \in {frFormEmpty, frFormAbsent} =>
              ~raised /\ isReportCustom # "undefined"
       /\ lastFrame \in {frJ1708Empty} =>
              ~raised /\ isReportJ1708 # "undefined"
       /\ lastFrame \in {frJ1939Empty, frJ1939Absent} =>
              ~raised /\ isReportJ1939 # "undefined"

\* C16: when ExtractValue decodes nothing for a report line, nothing is
\* written to the time-series sink for that line and no error is raised; the
\* remaining lines of the frame are still processed and the frame is still
\* acknowledged. (In frReportNone the first line decodes nothing and the
\* second one carries the RTC time 9.)
C16_UndecodedLineIsSkipped ==
    ( /\ lastOp = "RecievedData" /\ handler = "report"
      /\ reportFinalFormat.def
      /\ lastFrame = frReportNone )
    => /\ ~raised
       /\ Len(dbOut) = 1
       /\ dbOut[1].timestamp = <<57>> \o strNineZeros
       /\ Len(socketOut) = 1

\* text after the n-th comma of s (all of s when n is 0)
RECURSIVE AfterCommas(_, _)
AfterCommas(s, n) ==
    IF n = 0 \/ s = <<>> THEN s
    ELSE AfterCommas(Tail(s), IF s[1] = chComma THEN n - 1 ELSE n)

\* the lines of the body of an ASCII report frame ("@P", CRC, length,
\* sequence number and device identifier come first) that are not blank and
\* begin with a decimal digit
EligibleLines(buffer) ==
    SelectSeq(split(toAscii(AfterCommas(buffer, 5)), chCRLF),
              LAMBDA line : (\E i \in 1..Len(line) : line[i] # chSpace) /\ IsDigit(line[1]))

\* the write the claim C38 expects for one eligible line
ExpectedWrite(line, id, format) ==
    [deviceID  |-> toStringRadix(id, 10),
     timestamp |-> split(line, <<chComma>>)[2] \o strNineZeros,
     dataList  |-> ExtractValue(split(line, <<chComma>>), format, 0).v]

\* C38: on a connection whose format is resolved, every line of an ASCII
\* report body that is not blank and begins with a digit gives exactly one
\* write, tagged with the device identifier, timestamped with the line's
\* second field followed by nine zeros and carrying the positional decoding
\* of the line; other lines give none.
C38_OneWritePerEligibleLine ==
    ( /\ lastOp = "RecievedData" /\ handler = "report" /\ reportType = "ascii"
      /\ reportFinalFormat.def )
    => /\ Len(dbOut) = Len(EligibleLines(lastFrame))
       /\ \A i \in 1..Len(dbOut) :
             /\ Len(split(EligibleLines(lastFrame)[i], <<chComma>>)) >= 2
             /\ dbOut[i] = ExpectedWrite(EligibleLines(lastFrame)[i], deviceID,
                                         reportFinalFormat.v)

\* the format-query command of a customization, as written to the socket
QueryOf(cmd) == strAT \o cmd \o strQuery \o chCRLF

\* the queries due for the flags that are unknown, in the order they are sent
QueriesDue(custom, j1708, j1939) ==
    (IF custom = "undefined" THEN <<QueryOf(cmdForm)>> ELSE <<>>)
    \o (IF j1708 = "undefined" THEN <<QueryOf(cmdJ1708)>> ELSE <<>>)
    \o (IF j1939 = "undefined" THEN <<QueryOf(cmdJ1939)>> ELSE <<>>)

\* some format-query command is among the writes of the last step
QueryWritten ==
    \E i \in 1..Len(socketOut) :
        socketOut[i] \in {QueryOf(cmdForm), QueryOf(cmdJ1708), QueryOf(cmdJ1939)}

\* C28: a format-query command is sent only by a GetReportFormat tick and
\* only for a customization whose flag is still unknown, at most three per
\* tick; once all three flags are resolved no query is sent again, the first
\* tick after the resolution cancels the periodic timer, and a cancelled
\* timer is not armed again.
C28_QueriesOnlyWhileUnknown ==
    [][ /\ lastOp' = "GetReportFormat" =>
              /\ socketOut' = QueriesDue(isReportCustom, isReportJ1708, isReportJ1939)
              /\ AllResolved => ~getReportFormatInterval'
        /\ lastOp' # "GetReportFormat" => ~QueryWritten'
        /\ AllResolved => ~QueryWritten'
        /\ ~getReportFormatInterval => ~getReportFormatInterval'
      ]_vars

\* a tick after the three flags resolved to absent sent nothing and
\* cancelled the periodic timer
C28_Witness ==
    /\ AllResolved
    /\ reportFormatType = "base"
    /\ lastOp = "GetReportFormat"
    /\ socketOut = <<>>
    /\ ~getReportFormatInterval

\* the customizations recorded as present
PresentFlags ==
    {f \in {"custom", "j1708", "j1939"} :
        (f = "custom" /\ isReportCustom = "true")
        \/ (f = "j1708" /\ isReportJ1708 = "true")
        \/ (f = "j1939" /\ isReportJ1939 = "true")}

\* C31: in every reachable state at most one of the three customizations is
\* present, and the effective field sequence, once computed, is the base
\* fields followed by the token list of the present customization (the base
\* fields alone when none is present).
C31_AtMostOnePresent ==
    /\ Cardinality(PresentFlags) <= 1
    /\ reportFinalFormat.def =>
          reportFinalFormat.v =
              reportBaseFormat
              \o (IF "custom" \in PresentFlags THEN reportCustomFormat.v
                  ELSE IF PresentFlags # {} THEN reportJ1XXXFormat.v
                  ELSE <<>>)

\* the negotiated format of the connection: flags, token lists, type and
\* effective field sequence
formatState ==
    <<isReportCustom, isReportJ1708, isReportJ1939, reportCustomFormat,
      reportJ1XXXFormat, reportFormatType, reportFinalFormat>>

\* C32: an 'other' frame is read as command-response text only when the
\* cached report type is ascii: while the report type is unsniffed or
\* binary, an 'other' frame, even a well-formed format-query response,
\* leaves the three flags, the token lists and the effective field sequence
\* unchanged.
C32_OtherReadOnlyInAscii ==
    [][ (lastOp' = "RecievedData" /\ handler' = "other" /\ reportType # "ascii")
        => formatState' = formatState ]_vars

\* the response $FORM=0,@P,0,"%MV%BV" was handled on a connection whose
\* report type had been sniffed as binary, and the custom flag is unknown
C32_Witness ==
    /\ lastOp = "RecievedData" /\ handler = "other"
    /\ lastFrame = frFormMVBV
    /\ reportType = "binary"
    /\ isReportCustom = "undefined"

\* C33: format negotiation eventually resolves for a responsive device: when
\* the connection stays open and every format query is answered with a
\* well-formed response, all three flags eventually leave unknown and the
\* effective field sequence is eventually set, whether or not a report frame
\* has been received.
C33_NegotiationResolves == <>(AllResolved /\ reportFinalFormat.def)

\* once an ASCII report has been received, negotiation resolves
C33_ResolvesAfterAsciiReport ==
    (reportType = "ascii") ~> (AllResolved /\ reportFinalFormat.def)

\* ------------------------------------------------------------------------
\* Properties: picture reassembly (SpecTransfer)
\* ------------------------------------------------------------------------
\* the payload chunks of a sequence of picture data frames, joined in order
RECURSIVE JoinChunks(_)
JoinChunks(dataFrames) ==
    IF dataFrames = <<>> THEN <<>>
    ELSE SubSeq(dataFrames[1], 9, Len(dataFrames[1])) \o JoinChunks(Tail(dataFrames))

\* C9: for a transfer whose first packet declares total count N, the
\* transfer is done after a packet exactly when that packet's index is N;
\* its content is the concatenation of the chunks of all applied packets in
\* application order, and its total count stays N.
C9_DoneAtTotalWithAllChunks ==
    (applied # <<>> /\ Len(applied[1]) >= 6) =>
        LET N    == applied[1][6]
            last == applied[Len(applied)]
        IN  /\ assembled.done <=> (Len(last) >= 5 /\ last[5] = N)
            /\ assembled.content = JoinChunks(applied)
            /\ picture.def => /\ picture.totalPackageCount = Num(N)
                              /\ picture.pictureContent = JoinChunks(applied)

\* packets 1/2, 3/3 and 2/2 were applied in that order: done with all three chunks
C9_Witness ==
    /\ Len(applied) = 3
    /\ assembled.done
    /\ assembled.content = <<170, 221, 187>>
    /\ Len(pictureOut) = 1
    /\ pictureOut[1].content = <<170, 221, 187>>

\* C10: between frames the connection never holds a completed transfer: the
\* packet that makes the last-seen index equal to the declared total (the
\* first packet of a single-packet transfer included) hands the content to
\* one sink once and resets the transfer to absent.
C10_CompletedTransferDispatched ==
    /\ ~(picture.def /\ isDone(picture))
    /\ (lastOp = "RecievedData" /\ handler = "picture" /\ ~raised /\ assembled.done) =>
          /\ Len(pictureOut) = 1
          /\ pictureOut[1].content = assembled.content
          /\ ~picture.def

\* C34: every picture transfer has a known source device identifier: no
\* transfer exists and no image is handed to a sink while the connection's
\* device identifier is unset, so the storage key is built from a set
\* identifier.
C34_TransferHasKnownDevice ==
    /\ picture.def => Known(picture.deviceID) /\ Known(deviceID)
    /\ \A i \in 1..Len(pictureOut) :
          /\ Known(deviceID)
          /\ pictureOut[i].sink = "database" =>
                SubSeq(pictureOut[i].key, 1, Len(strUndefined)) # strUndefined

\* s is t cut short
IsStrictPrefix(s, t) == Len(s) < Len(t) /\ SubSeq(t, 1, Len(s)) = s

\* C35: while the write of a completed transfer is pending, a picture packet
\* leaves every pending write as it was handed over (key and bytes), is not
\* appended to a transfer whose write is pending, and, when it is the first
\* packet after the completion, starts a fresh transfer holding only its
\* own chunk and dispatches nothing.
C35_PendingWriteUntouched ==
    [][ (pendingWrite # <<>> /\ lastOp' = "RecievedData" /\ handler' = "picture" /\ ~raised')
        => /\ SubSeq(pendingWrite', 1, Len(pendingWrite)) = pendingWrite
           /\ \A i \in 1..Len(pendingWrite) :
                 ~IsStrictPrefix(pendingWrite[i].packets, applied')
           /\ pendingWrite[Len(pendingWrite)].packets = applied =>
                 /\ picture'.def
                 /\ applied' = <<subarrayFrom(lastFrame', 16)>>
                 /\ picture'.pictureContent = subarrayFrom(lastFrame', 24)
                 /\ pictureOut' = <<>> ]_vars

\* the write of 1/2, 2/2 is still pending when the transfer 1/2, 3/3, 2/2
\* that followed it is handed over in turn
C35_Witness ==
    /\ Len(pendingWrite) = 2
    /\ pendingWrite[1].content = <<170, 187>>
    /\ pendingWrite[2].content = <<170, 221, 187>>
    /\ lastOp = "RecievedData"
    /\ ~picture.def

\* ------------------------------------------------------------------------
\* Properties: the decoder functions (SpecDecode)
\* ------------------------------------------------------------------------
\* C18: for a width n and an integer v in [0, 2^n), the slice "a~b" with
\* 0 <= a < b < n gives floor(v / 2^a) mod 2^(b-a+1) and the single index k
\* with 0 <= k < n gives bit k of v (bit 0 the least significant); a value
\* of more than n bits, a range reaching outside the width and a bit index
\* outside the width give undefined.
C18_SliceIsBitSpan ==
    call.fn = "GetIntSliceFromBinary" =>
        LET v     == call.args[1]
            n     == call.args[2]
            slice == call.args[3]
        IN  /\ \A a, b \in BitIndexes :
                  slice = RangeText(a, b) =>
                      IF v >= Pow(2, n) \/ a < 0 \/ a >= n \/ b < 0 \/ b >= n
                      THEN call.result = Undefined
                      ELSE a < b =>
                              call.result = Num((v \div Pow(2, a)) % Pow(2, b - a + 1))
            /\ \A k \in BitIndexes :
                  slice = IntText(k) =>
                      IF v >= Pow(2, n) \/ k < 0 \/ k >= n
                      THEN call.result = Undefined
                      ELSE call.result = Num((v \div Pow(2, k)) % 2)

\* bits 1..3 of 13 (binary 1101) in a width of 4 were extracted: 6
C18_Witness ==
    /\ call.fn = "GetIntSliceFromBinary"
    /\ call.args = <<13, 4, RangeText(1, 3)>>
    /\ call.result = Num(6)

\* C19: GetValueU8 returns undefined for every integer input outside 0..255,
\* above 255 as well as below 0, whatever the bitfield table is.
C19_OutOfRangeIsUndefined ==
    (call.fn = "GetValueU8" /\ call.args[1] \notin 0..255)
        => call.result = Nothing

\* the part of C19 the code keeps: an input above 255 gives undefined
C19_Above255IsUndefined ==
    (call.fn = "GetValueU8" /\ call.args[1] > 255) => call.result = Nothing

\* the bits a bit target names, as <<lowest, highest>>: a single index, or a
\* range lowest~highest with lowest < highest, within bits 0..7
U8Span(bitTarget) ==
    IF Len(bitTarget) = 1 /\ IsDigit(bitTarget[1]) /\ bitTarget[1] - 48 <= 7
    THEN {<<bitTarget[1] - 48, bitTarget[1] - 48>>}
    ELSE IF /\ Len(bitTarget) = 3 /\ bitTarget[2] = chTilde
            /\ IsDigit(bitTarget[1]) /\ IsDigit(bitTarget[3])
            /\ bitTarget[1] < bitTarget[3] /\ bitTarget[3] - 48 <= 7
         THEN {<<bitTarget[1] - 48, bitTarget[3] - 48>>}
    ELSE {}

\* bits lowest..highest of v, bit 0 being the least significant
U8Bits(v, span) == (v \div Pow(2, span[1])) % Pow(2, span[2] - span[1] + 1)

\* the DecodedValues one sub-field stands for: its bits decoded by its own
\* kind; none for a nested bitfield, a target outside the byte, a text
\* missing from the dictionary or an unknown kind
U8Decoded(v, subInfo, span) ==
    CASE subInfo.dbtype = "int" ->
            <<[name |-> subInfo.name, dbtype |-> "int",
               value |-> Num(U8Bits(v, span)
                             * (IF subInfo.multiplier = 0 THEN 1 ELSE subInfo.multiplier))]>>
      [] subInfo.dbtype = "boolean" ->
            <<[name |-> subInfo.name, dbtype |-> "boolean",
               value |-> [k |-> "boolean", v |-> IF U8Bits(v, span) = 1 THEN 1 ELSE 0]]>>
      [] subInfo.dbtype = "string" /\ IntText(U8Bits(v, span)) \in DOMAIN subInfo.dict ->
            <<[name |-> subInfo.name, dbtype |-> "string",
               value |-> Str(subInfo.dict[IntText(U8Bits(v, span))])]>>
      [] OTHER -> <<>>

RECURSIVE U8Expected(_, _)
U8Expected(v, targets) ==
    IF targets = <<>> THEN <<>>
    ELSE (IF U8Span(targets[1][1]) = {} \/ targets[1][2].dbtype = "U8" THEN <<>>
          ELSE U8Decoded(v, targets[1][2], CHOOSE sp \in U8Span(targets[1][1]) : TRUE))
         \o U8Expected(v, Tail(targets))

\* the sub-fields named by the single index d, d + 1, .. 9, in this order
RECURSIVE U8IndexNamed(_, _)
U8IndexNamed(tables, d) ==
    IF d > 9 THEN <<>>
    ELSE SelectSeq(tables, LAMBDA t : t[1] = <<48 + d>>) \o U8IndexNamed(tables, d + 1)

\* the order GetValueU8 visits a table in: the sub-fields named by a single
\* index in ascending order, then the ranges in the order of the table
U8Visited(tables) ==
    U8IndexNamed(tables, 0) \o SelectSeq(tables, LAMBDA t : Len(t[1]) # 1)

\* the entries of a GetValueU8 result; undefined has none
U8Entries(result) == IF result.tag = "array" THEN result.v ELSE <<>>

\* C20 as stated: for every v in 0..255 and every bitfield table, GetValueU8
\* emits in table order one DecodedValue per sub-field that is not U8 and
\* whose bits lie within 0..7, named and typed as the sub-field and valued
\* with the bits decoded by the sub-field's kind.
C20_EmitsInTableOrder ==
    (call.fn = "GetValueU8" /\ call.args[1] \in 0..255)
        => U8Entries(call.result) = U8Expected(call.args[1], call.args[2])

\* C20 amended: the DecodedValues are emitted in the order the table is
\* enumerated (single-index sub-fields ascending, then ranges in table
\* order); a sub-field whose kind decodes its bits to nothing emits nothing,
\* and the result is undefined when no sub-field emits.
C20_EmitsInVisitedOrder ==
    (call.fn = "GetValueU8" /\ call.args[1] \in 0..255)
        => /\ U8Entries(call.result) = U8Expected(call.args[1], U8Visited(call.args[2]))
           /\ (call.result = Nothing) = (U8Expected(call.args[1], call.args[2]) = <<>>)
           /\ call.result.tag \in {"array", "undefined"}

\* v = 127 with sub-fields "0", "1~2", "3~5" of kind int gives 1, 3, 7
C20_Witness ==
    /\ call.fn = "GetValueU8"
    /\ call.args[1] = 127
    /\ Len(call.args[2]) = 3
    /\ call.result = List(<<[name |-> "b0", dbtype |-> "int", value |-> Num(1)],
                            [name |-> "b12", dbtype |-> "int", value |-> Num(3)],
                            [name |-> "b35", dbtype |-> "int", value |-> Num(7)]>>)

\* the entries of an ExtractValue result; undefined has none
ExtractedEntries(result) == IF result.def THEN result.v ELSE <<>>

\* what position i (0-based) of a line stands for on its own: the entries
\* decoded from its token alone under its format name; nothing when the line
\* or the format has no such position
PositionEntries(input, pattern, i) ==
    IF i < 0 \/ i >= Len(input) \/ i >= Len(pattern) THEN <<>>
    ELSE ExtractedEntries(ExtractValue(<<input[i + 1]>>, <<pattern[i + 1]>>, 0))

\* the entries of the positions i, i + 1, .. of a line, in position order
RECURSIVE PositionWise(_, _, _)
PositionWise(input, pattern, i) ==
    IF i >= Len(input) THEN <<>>
    ELSE PositionEntries(input, pattern, i) \o PositionWise(input, pattern, i + 1)

\* the names a catalog field can emit: its own and those of its sub-fields
EmittedNames(patternInfo) ==
    {patternInfo.name} \cup {patternInfo.tables[k][2].name : k \in 1..Len(patternInfo.tables)}

\* C15: the output of ExtractValue(input, pattern, offset) is made of the
\* values decoded at the positions i >= offset whose format name is a
\* catalog token, in position order; a position with an unknown token or an
\* unknown storage kind emits nothing and changes nothing of what the other
\* positions emit.
C15_PositionWise ==
    call.fn = "ExtractValue" =>
        /\ ExtractedEntries(call.result)
              = PositionWise(call.args[1], call.args[2], call.args[3])
        /\ call.result.def = (ExtractedEntries(call.result) # <<>>)
        /\ \A k \in 1..Len(ExtractedEntries(call.result)) :
              \E i \in call.args[3]..(Len(call.args[2]) - 1) :
                 /\ call.args[2][i + 1] \in DOMAIN reportPattern
                 /\ call.result.v[k].name
                       \in EmittedNames(reportPattern[call.args[2][i + 1]])
        /\ \A i \in 0..(Len(call.args[2]) - 1) :
              (\/ call.args[2][i + 1] \notin DOMAIN reportPattern
               \/ call.args[2][i + 1] = tokJO)
                 => PositionEntries(call.args[1], call.args[2], i) = <<>>

\* a line of three positions with a name outside the catalog in the middle:
\* the first and the third position are decoded
C15_Witness ==
    /\ call.fn = "ExtractValue"
    /\ call.args = << << <<55>>, <<55>>, <<49>> >>, <<tokRTCTime, <<81, 81>>, tokZO>>, 0 >>
    /\ call.result = Some(<<[name |-> "rtc", dbtype |-> "int", value |-> Num(7)],
                            [name |-> "zo", dbtype |-> "boolean",
                             value |-> [k |-> "boolean", v |-> 1]]>>)

\* C25: for every integer-valued numeric string s (positive, zero or negative)
\* and every decimals count d >= 1, no multiplier configured, the float kind
\* yields int(s) / 10^d.
C25_FloatIsFixedPoint ==
    call.fn = "GetValueFloat" /\ call.args[2] >= 1 =>
        call.result = Scalar(Dec(call.args[1], call.args[2]))

\* a text of hexadecimal digits only
IsHexText(s) == \A i \in 1..Len(s) : HexVal(s[i]) >= 0

\* the number four hexadecimal digits denote; as a 32-bit two's-complement
\* quantity it is that number itself, the top bit of the 32 being 0
HexGroupValue(g) ==
    HexVal(g[1]) * 4096 + HexVal(g[2]) * 256 + HexVal(g[3]) * 16 + HexVal(g[4])

\* the entry of one axis of the g-force field "gf"
GForceAxis(suffix, g) ==
    [name |-> "gf" \o suffix, dbtype |-> "int", value |-> Num(HexGroupValue(g))]

\* C23: for every input of at least 12 hex characters GetValueGForce emits
\* exactly <field>_x, <field>_y, <field>_z in that order, each of kind int,
\* decoded from characters 1-4, 5-8 and 9-12 as signed 32-bit values
\* (characters beyond the 12th are ignored); a shorter input yields none.
C23_GForceThreeAxes ==
    call.fn = "GetValueGForce" /\ IsHexText(call.args[1]) =>
        IF Len(call.args[1]) >= 12
        THEN call.result = List(<<GForceAxis("_x", SubSeq(call.args[1], 1, 4)),
                                  GForceAxis("_y", SubSeq(call.args[1], 5, 8)),
                                  GForceAxis("_z", SubSeq(call.args[1], 9, 12))>>)
        ELSE call.result = Nothing

\* "FFFF80000001" followed by "9a" was decoded: x is 65535, y 32768, z 1
C23_Witness ==
    /\ call.fn = "GetValueGForce"
    /\ call.args[1] = <<70, 70, 70, 70, 56, 48, 48, 48, 48, 48, 48, 49, 57, 97>>
    /\ call.result.tag = "array"
    /\ call.result.v[1].value = Num(65535)

\* C40: every g-force axis value that is emitted is a number in 0..65535,
\* never negative, and for a group of four hexadecimal digits it is the
\* unsigned value of the group: the 16 bits are padded with zeros to 32
\* before the two's-complement conversion, so the sign bit is never set.
C40_AxisIsUnsigned ==
    (call.fn = "GetValueGForce" /\ call.result.tag = "array") =>
        /\ Len(call.result.v) = 3
        /\ \A i \in 1..Len(call.result.v) :
              /\ call.result.v[i].value.k = "number"
              /\ call.result.v[i].value.v \in 0..65535
              /\ IsHexText(SubSeq(call.args[1], 4 * i - 3, 4 * i)) =>
                    call.result.v[i].value.v =
                        HexGroupValue(SubSeq(call.args[1], 4 * i - 3, 4 * i))

\* "8000FFFF7fff" was decoded: 32768, 65535 and 32767, the top bit of the
\* first two groups notwithstanding
C40_Witness ==
    /\ call.fn = "GetValueGForce"
    /\ call.args[1] = <<56, 48, 48, 48, 70, 70, 70, 70, 55, 102, 102, 102>>
    /\ call.result.tag = "array"
    /\ call.result.v[1].value = Num(32768)
    /\ call.result.v[2].value = Num(65535)
    /\ call.result.v[3].value = Num(32767)

\* the axis suffixes of the groups of raw that parseInt reads as a number
GForceParsedAxes(raw) ==
    LET Parses(i) == parseIntRadix(SubSeq(raw, 4 * i - 3, 4 * i), 16).k = "number"
        suffix    == <<"_x", "_y", "_z">>
        kept      == SelectSeq(<<1, 2, 3>>, Parses)
    IN  [j \in 1..Len(kept) |-> "gf" \o suffix[kept[j]]]

\* C24: when one of the three groups fails to parse as hexadecimal, that
\* axis is omitted and the axes whose groups parse are still emitted; the
\* decode does not raise.
C24_BadGroupIsOmitted ==
    call.fn = "GetValueGForce" /\ Len(call.args[1]) >= 12 =>
        /\ call.result.tag # "throw"
        /\ [j \in 1..Len(call.result.v) |-> call.result.v[j].name]
              = GForceParsedAxes(call.args[1])

\* the four coefficients of a tpms field
Coefficients(patternInfo) ==
    {patternInfo.pressure_slope, patternInfo.pressure_const,
     patternInfo.temp_slope, patternInfo.temp_const}

\* max(0, x)
AtLeastZero(x) == IF x.k = "number" /\ IsNegative(x) THEN Num(0) ELSE x

\* max(0, slope * value + const) in the arithmetic of the runtime
TireValue(slope, value, const) == AtLeastZero(Add(Mul(slope, Num(value)), const))

\* the two entries of the n-th group of a tpms text
TireEntries(raw, n, patternInfo) ==
    LET g == SubSeq(raw, 8 * n - 7, 8 * n)
    IN  << [name |-> "tire_temp_" \o ToString(n), dbtype |-> "int",
            value |-> TireValue(patternInfo.temp_slope,
                                HexVal(g[5]) * 16 + HexVal(g[6]),
                                patternInfo.temp_const)],
           [name |-> "tire_pressure_" \o ToString(n), dbtype |-> "float",
            value |-> TireValue(patternInfo.pressure_slope,
                                HexVal(g[7]) * 16 + HexVal(g[8]),
                                patternInfo.pressure_const)] >>

\* C21: for a hex text of one or more 8-character groups and the four
\* coefficients configured, GetValueTPMS emits for the n-th group, in input
\* order, tire_temp_n (int) = max(0, temp_slope * value(chars 5-6) +
\* temp_const) and tire_pressure_n (float) = max(0, pressure_slope *
\* value(chars 7-8) + pressure_const), and nothing else; a text whose length
\* is not a multiple of 8 yields none.
C21_TiresInOrder ==
    /\ call.fn = "GetValueTPMS"
    /\ call.args[1] # <<>>
    /\ IsHexText(call.args[1])
    /\ Undefined \notin Coefficients(call.args[2])
    => IF Len(call.args[1]) % 8 # 0 THEN call.result = Nothing
       ELSE /\ call.result.tag = "array"
            /\ Len(call.result.v) = 2 * (Len(call.args[1]) \div 8)
            /\ \A n \in 1..(Len(call.args[1]) \div 8) :
                  SubSeq(call.result.v, 2 * n - 1, 2 * n)
                      = TireEntries(call.args[1], n, call.args[2])

\* "D0DC9911" then "13E28009" with 0.3625, 0, 3, -424: 35 and 6.1625 for
\* the first tire, 0 (from -40) and 3.2624999999999997 for the second
C21_Witness ==
    /\ call.fn = "GetValueTPMS"
    /\ call.args[1] = <<68, 48, 68, 67, 57, 57, 49, 49, 49, 51, 69, 50, 56, 48, 48, 57>>
    /\ call.args[2] = TpmsDef("tpms", Dec(3625, 4), Num(0), Num(3), Num(0 - 424))
    /\ call.result.tag = "array"
    /\ call.result.v[1].value = Num(35)
    /\ call.result.v[2].value = Dec(61625, 4)
    /\ call.result.v[3].value = Num(0)
    /\ call.result.v[4].value
          = [k |-> "number", v |-> 3, neg |-> FALSE,
             frac |-> <<2, 6, 2, 4, 9, 9, 9, 9, 9, 9, 9, 9, 9, 9, 9, 7>>]

\* C37: a console line '<deviceID>|<command>' is sent only to the connection
\* stored under that identifier; when none is stored under it the line is
\* reported as not deliverable, nothing is sent and nothing is raised,
\* however many connections are open.
C37_CommandGoesToRegistered ==
    (call.fn = "StartConsoleInput" /\ indexOf(trim(call.args[1]), chBar, 0) # -1) =>
        LET id == split(trim(call.args[1]), <<chBar>>)[1]
            connectedSocket == call.args[3]
        IN  /\ \A i \in 1..Len(call.result.sent) :
                  /\ id \in DOMAIN connectedSocket
                  /\ call.result.sent[i].to = connectedSocket[id]
            /\ id \notin DOMAIN connectedSocket =>
                  /\ call.result.sent = <<>>
                  /\ ~call.result.raised
                  /\ call.result.log = "not on the connected list"

\* C22: GetValueTPMS yields none, without raising and without emitting a
\* value, whenever the length is not a multiple of 8, the text is empty, or
\* any one of the four coefficients is not configured.
C22_NoneWhenPreconditionFails ==
    /\ call.fn = "GetValueTPMS"
    /\ \/ Len(call.args[1]) % 8 # 0
       \/ call.args[1] = <<>>
       \/ Undefined \in Coefficients(call.args[2])
    => call.result = Nothing

\* ------------------------------------------------------------------------
\* Properties: timers, GetDeviceID and shutdown (SpecLife)
\* ------------------------------------------------------------------------
\* the identifier was set to a number before `time`
KnownBefore(time) == knownAt >= 0 /\ knownAt < time

\* C36: the registry holds only live connections: once the peer's close has
\* been handled the connection is not stored in the registry, whether it
\* was stored before the close or its GetDeviceID wait resolves after it.
C36_RegistryHoldsLiveOnly == peerEnded => ~registered

\* C11: GetDeviceID resolves immediately with the identifier when it is
\* already known (the calls of the 'end' handler, the i-th promises with
\* i > 1, are made when nothing can change the identifier any more);
\* otherwise it resolves with the identifier once it becomes known within 60
\* seconds (a pending promise does not outlive a poll period after that), or
\* with undefined when 60 seconds elapse first; no polling timer is left
\* running after the resolution.
C11_GetDeviceIDResolves ==
    \A i \in 1..Len(promises) :
        /\ (i > 1 /\ Known(deviceID)) =>
              /\ promises[i].state = "resolved"
              /\ promises[i].resolvedAt = promises[i].callTime
              /\ promises[i].value = deviceID
        /\ (promises[i].state = "pending" /\ knownAt >= promises[i].callTime) =>
              now <= knownAt + PollPeriod
        /\ (promises[i].state = "resolved" /\ promises[i].value = Undefined) =>
              /\ promises[i].resolvedAt = promises[i].callTime + DeviceIDTimeout
              /\ ~KnownBefore(promises[i].callTime + DeviceIDTimeout)
        /\ (promises[i].state = "resolved" /\ promises[i].value # Undefined) =>
              /\ Known(promises[i].value)
              /\ promises[i].resolvedAt <= promises[i].callTime + DeviceIDTimeout
        /\ promises[i].state = "resolved" => ~promises[i].poll

\* the last step was a liveness check that called socket.end()
ClosedByCheck ==
    /\ lastOp = "CheckTimeout"
    /\ endLog # <<>>
    /\ endLog[Len(endLog)] = [by |-> "CheckTimeout", at |-> now]

\* C12: whenever the liveness check runs, the socket is closed if and only
\* if the time elapsed since the last received frame (since connect before
\* any) is at least the configured timeout; a frame received less than one
\* timeout before the check keeps the connection open.
C12_ClosedIffElapsed ==
    lastOp = "CheckTimeout" => (ClosedByCheck <=> now - lastRecv >= SOCKET_TIMEOUT)

\* a frame received at 59950 ms kept the connection open at the first check,
\* less than one timeout later, and the second check closes it
C12_Witness ==
    /\ ClosedByCheck
    /\ lastRecv = 59950
    /\ Len(endLog) = 1

\* C39 as stated: measured from the last received frame (from connect
\* before any), a liveness check closes the connection only when at least
\* one timeout has passed, every check that runs after one timeout closes
\* it, and no open connection is left unclosed for more than two timeouts.
C39_ClosedBetweenOneAndTwoTimeouts ==
    /\ ClosedByCheck => now - lastRecv >= SOCKET_TIMEOUT
    /\ (lastOp = "CheckTimeout" /\ now - lastRecv >= SOCKET_TIMEOUT) => ClosedByCheck
    /\ (~peerEnded /\ now - lastRecv > 2 * SOCKET_TIMEOUT) =>
          \E k \in 1..Len(endLog) :
              /\ endLog[k].by = "CheckTimeout"
              /\ endLog[k].at - lastRecv <= 2 * SOCKET_TIMEOUT

\* C39 (amended): a liveness check closes the connection only when at least
\* one timeout has passed since the last received frame, and every check
\* that runs after one timeout closes it; each check is scheduled one
\* timeout after the run of the check before it, so as long as no check has
\* closed the connection the next check is scheduled less than two timeouts
\* after the last received frame. How long after that instant it runs is
\* not bounded by the timeout.
C39_ClosingCheckDueWithinTwoTimeouts ==
    /\ ClosedByCheck => now - lastRecv >= SOCKET_TIMEOUT
    /\ (lastOp = "CheckTimeout" /\ now - lastRecv >= SOCKET_TIMEOUT) => ClosedByCheck
    /\ (keepAliveCheck /\ \A k \in 1..Len(endLog) : endLog[k].by # "CheckTimeout") =>
          keepAliveDue - lastRecv < 2 * SOCKET_TIMEOUT

\* a frame received at 1 ms is 59999 ms old at the first check, which runs
\* on time; the second check runs late and closes the connection more than
\* two timeouts after the frame
C39_Witness ==
    /\ ClosedByCheck
    /\ lastRecv = 1
    /\ now - lastRecv > 2 * SOCKET_TIMEOUT

\* C13: after ClearSocket has been called no timer of the connection fires
\* again, neither the liveness check nor a GetReportFormat that writes
\* format-query commands, whenever the shutdown happens; a second
\* ClearSocket changes nothing.
C13_NoTimerAfterClearSocket ==
    /\ peerEnded => lastOp \notin {"CheckTimeout", "GetReportFormat"}
    /\ \A h \in {[keepAliveCheck |-> keepAliveCheck,
                   getReportFormatInterval |-> getReportFormatInterval]} :
          ClearSocket(ClearSocket(h)) = ClearSocket(h)

\* the liveness check has called socket.end()
TimedOut == \E k \in 1..Len(endLog) : endLog[k].by = "CheckTimeout"

\* C14: after the liveness check has closed the connection the timers are
\* cancelled: the liveness check does not close the socket again, no
\* GetReportFormat runs, and nothing (ACK or format-query command) is
\* written or handed to the closed socket, which would end the process.
C14_TimeoutIsTerminal ==
    TimedOut =>
        /\ Cardinality({k \in 1..Len(endLog) : endLog[k].by = "CheckTimeout"}) = 1
        /\ lastOp # "GetReportFormat"
        /\ socketOut = <<>>
        /\ ~exited

====
